---------------------------- MODULE Spec2Model ----------------------------
(***************************************************************************)
(* Rate-limiting decision engine of Go-Rate-Limiter: the three algorithms  *)
(* (token bucket, sliding window counter, fixed window counter), the two   *)
(* stores (MemoryStore, RedisStore) and the HTTP handlers that call them.  *)
(*                                                                         *)
(* Time is counted in ticks, TicksPerSecond ticks to the second.  Token    *)
(* counts are float64 in the source; here they are exact rationals with    *)
(* denominator WindowTicks: a token count t is held as t * WindowTicks, so *)
(* that elapsed * refillRate = elapsedTicks * limit / WindowTicks is an    *)
(* integer number of such units.  Floating-point rounding is not modelled. *)
(***************************************************************************)
EXTENDS Integers, Sequences, FiniteSets, TLC

(***************************************************************************)
(* Bounds of the model.                                                    *)
(***************************************************************************)
TicksPerSecond == 2
WindowSeconds == 1
Limit == 3
MaxTime == 4
MaxRun == Limit + 2
ConcLimit == 2
MaxSleeps == 1
NProcs == 2 * ConcLimit

WindowTicks == WindowSeconds * TicksPerSecond

(* time.Time{} as returned by GetTokens for an absent key *)
ZeroTime == -1
(* now.Sub(time.Time{}) saturates at the largest Duration (about 292 years) *)
MaxDurationTicks == 1000000

Keys == {"k1", "k2"}
Algorithms == {"token_bucket", "sliding_window", "fixed_window"}
WindowAlgorithms == {"sliding_window", "fixed_window"}

(* limiter.Config as main builds it from cfg.Limits.Default, with the      *)
(* default algorithm of cfg.Algorithms.Default                             *)
Config(limit, burst, default) == [limit |-> limit, burst |-> burst, default |-> default]

Configs ==
    { Config(Limit, 0, "token_bucket"), Config(Limit, Limit + 1, "token_bucket"),
      Config(Limit, 0, "sliding_window"), Config(Limit, 0, "fixed_window") }

EmptyMap == [x \in {} |-> 0]

Put(f, k, v) == [x \in (DOMAIN f) \cup {k} |-> IF x = k THEN v ELSE f[x]]

Remove(f, k) == [x \in (DOMAIN f) \ {k} |-> f[x]]

Lookup(f, k, d) == IF k \in DOMAIN f THEN f[k] ELSE d

Max(a, b) == IF a >= b THEN a ELSE b

(* Go's conversion int(x) and time.Duration(x): truncation toward zero *)
Trunc(a, b) == IF a >= 0 THEN a \div b ELSE -((-a) \div b)

(* a Truncate that maps every instant to the window that starts at 0 *)
Truncate_Epoch(t, w) == 0

(* t.Truncate(window): window starts are multiples of the window *)
Truncate(t, w) == t - (t % w)

(* t.Unix(): whole seconds, and time.Unix(sec, 0) back *)
Unix(t) == t \div TicksPerSecond

FromUnix(sec) == sec * TicksPerSecond

(* now.Sub(t) in ticks *)
Sub(now, t) == IF t = ZeroTime THEN MaxDurationTicks ELSE now - t

(***************************************************************************)
(* Stores.  A store value is [kind, counters, tokens].                     *)
(*   memory: counters[key] is the windowCounts.data map (window start ->   *)
(*           count), tokens[key] the tokenState.                           *)
(*   redis:  counters[key] is the hash "window:<key>" (field = Unix        *)
(*           seconds of the window start -> count), tokens[key] the hash   *)
(*           "tokens:<key>" with fields tokens and last_refill.            *)
(*   failing is the set of store operations whose redis command currently  *)
(*   returns an error (server unreachable, timeout); the memory store has  *)
(*   no failing operation.                                                 *)
(***************************************************************************)
StoreOps == {"get_tokens", "set_tokens", "get_windows", "increment", "delete"}

NewMemoryStore ==
    [kind |-> "memory", counters |-> EmptyMap, tokens |-> EmptyMap, failing |-> {}]

NewRedisStore ==
    [kind |-> "redis", counters |-> EmptyMap, tokens |-> EmptyMap, failing |-> {}]

(* the err != nil of a redis command *)
RedisErr(st, op) == op \in st.failing

(* The fields and values of a redis hash are strings.  The decimal form of *)
(* a number is held as the number; NotANumber is a string that is not the  *)
(* decimal form of any number.                                             *)
NotANumber == -1000001

(* strconv.ParseInt and strconv.ParseFloat: the number, or 0 and an error *)
ParseNum(s) ==
    IF s = NotANumber THEN [val |-> 0, err |-> TRUE] ELSE [val |-> s, err |-> FALSE]

MemoryIncrement(st, key, window) ==
    LET wc == Lookup(st.counters, key, EmptyMap)
        c  == Lookup(wc, window, 0) + 1
    IN  [store |-> [st EXCEPT !.counters = Put(@, key, Put(wc, window, c))],
         count |-> c, err |-> FALSE]

MemoryGetWindows(st, key, from, to) ==
    LET wc == Lookup(st.counters, key, EmptyMap)
    IN  { [timestamp |-> t, count |-> wc[t]] :
             t \in { u \in DOMAIN wc : u >= from /\ u <= to } }

MemorySetTokens(st, key, tokens, lastRefill) ==
    [st EXCEPT !.tokens = Put(@, key, [tokens |-> tokens, lastRefill |-> lastRefill])]

MemoryGetTokens(st, key) ==
    IF key \notin DOMAIN st.tokens
    THEN [tokens |-> 0, lastRefill |-> ZeroTime, err |-> FALSE]
    ELSE [tokens |-> st.tokens[key].tokens,
          lastRefill |-> st.tokens[key].lastRefill, err |-> FALSE]

(* Delete that forgets ms.tokens.Delete(key) *)
MemoryDelete_KeepTokens(st, key) ==
    [st EXCEPT !.counters = Remove(@, key)]

MemoryDelete(st, key) ==
    [st EXCEPT !.counters = Remove(@, key), !.tokens = Remove(@, key)]

(* incrementScript: HINCRBY key field 1; HINCRBY returns an error when the *)
(* value of the field is not an integer                                    *)
RedisIncrement(st, key, window) ==
    LET h     == Lookup(st.counters, key, EmptyMap)
        field == Unix(window)
        c     == Lookup(h, field, 0) + 1
    IN  IF RedisErr(st, "increment") \/ ParseNum(Lookup(h, field, 0)).err
        THEN [store |-> st, count |-> 0, err |-> TRUE]
        ELSE [store |-> [st EXCEPT !.counters = Put(@, key, Put(h, field, c))],
              count |-> c, err |-> FALSE]

RedisGetWindows(st, key, from, to) ==
    LET h == Lookup(st.counters, key, EmptyMap)
    IN  { [timestamp |-> FromUnix(f), count |-> h[f]] :
             f \in { g \in DOMAIN h : /\ ~ParseNum(g).err
                                      /\ FromUnix(g) >= from /\ FromUnix(g) <= to
                                      /\ ~ParseNum(h[g]).err } }

(* one HSET of the SetTokens pipeline *)
RedisHSet(st, key, field, value) ==
    [st EXCEPT !.tokens = Put(@, key, Put(Lookup(st.tokens, key, EmptyMap), field, value))]

RedisSetTokens(st, key, tokens, lastRefill) ==
    RedisHSet(RedisHSet(st, key, "tokens", tokens), key, "last_refill", Unix(lastRefill))

RedisGetTokens(st, key) ==
    LET h == Lookup(st.tokens, key, EmptyMap)
    IN  IF RedisErr(st, "get_tokens")
        THEN [tokens |-> 0, lastRefill |-> ZeroTime, err |-> TRUE]
        ELSE IF DOMAIN h = {}
        THEN [tokens |-> 0, lastRefill |-> ZeroTime, err |-> FALSE]
        ELSE [tokens |-> ParseNum(Lookup(h, "tokens", 0)).val,
              lastRefill |-> IF "last_refill" \in DOMAIN h
                             THEN FromUnix(ParseNum(h["last_refill"]).val)
                             ELSE ZeroTime,
              err |-> FALSE]

(* a Delete that drops the hashes of every key *)
RedisDelete_AllKeys(st, key) ==
    [st EXCEPT !.counters = EmptyMap, !.tokens = EmptyMap]

RedisDelete(st, key) ==
    [st EXCEPT !.counters = Remove(@, key), !.tokens = Remove(@, key)]

(* limiter.Store: dispatch on the implementation *)
Increment(st, key, window) ==
    IF st.kind = "memory" THEN MemoryIncrement(st, key, window)
    ELSE RedisIncrement(st, key, window)

GetWindows(st, key, from, to) ==
    IF st.kind = "memory" THEN MemoryGetWindows(st, key, from, to)
    ELSE RedisGetWindows(st, key, from, to)

SetTokens(st, key, tokens, lastRefill) ==
    IF st.kind = "memory" THEN MemorySetTokens(st, key, tokens, lastRefill)
    ELSE RedisSetTokens(st, key, tokens, lastRefill)

GetTokens(st, key) ==
    IF st.kind = "memory" THEN MemoryGetTokens(st, key)
    ELSE RedisGetTokens(st, key)

Delete(st, key) ==
    IF st.kind = "memory" THEN MemoryDelete(st, key) ELSE RedisDelete(st, key)

(* the error result of GetWindows, SetTokens and Delete: a failed call     *)
(* returns before it reads or writes anything                              *)
GetWindowsErr(st) == st.kind = "redis" /\ RedisErr(st, "get_windows")

SetTokensErr(st) == st.kind = "redis" /\ RedisErr(st, "set_tokens")

DeleteErr(st) == st.kind = "redis" /\ RedisErr(st, "delete")

(***************************************************************************)
(* Decision record (limiter.LimitInfo).  RetryAfter is a pointer in the    *)
(* source: << >> is nil, <<d>> a duration of d ticks.                      *)
(***************************************************************************)
LimitInfo(limit, remaining, resetAt, retryAfter) ==
    [limit |-> limit, remaining |-> remaining, resetAt |-> resetAt,
     retryAfter |-> retryAfter]

(* return false, nil, fmt.Errorf(...): no decision, the store as it was *)
Failed(st) ==
    [allowed |-> FALSE, err |-> TRUE, info |-> LimitInfo(0, 0, 0, << >>), store |-> st]

CountAt(windows, t) ==
    IF \E w \in windows : w.timestamp = t
    THEN (CHOOSE w \in windows : w.timestamp = t).count
    ELSE 0

(***************************************************************************)
(* Token bucket.                                                           *)
(***************************************************************************)
(* NewTokenBucket: capacity = burst, or limit when burst = 0 *)
Capacity(cfg) == IF cfg.burst = 0 THEN cfg.limit ELSE cfg.burst

(* a refill without the cap at capacity *)
TokenBucketRefill_NoCap(cfg, got, now) ==
    LET tokens0    == IF got.err THEN Capacity(cfg) * WindowTicks ELSE got.tokens
        lastRefill == IF got.err THEN now ELSE got.lastRefill
    IN  tokens0 + Sub(now, lastRefill) * cfg.limit

(* tokens (in 1/WindowTicks units) after the refill and the cap *)
TokenBucketRefill(cfg, got, now) ==
    LET tokens0    == IF got.err THEN Capacity(cfg) * WindowTicks ELSE got.tokens
        lastRefill == IF got.err THEN now ELSE got.lastRefill
        elapsed    == Sub(now, lastRefill)
        tokens1    == tokens0 + elapsed * cfg.limit
    IN  IF tokens1 > Capacity(cfg) * WindowTicks
        THEN Capacity(cfg) * WindowTicks ELSE tokens1

TokenBucketAllowed(tokens, n) == tokens >= n * WindowTicks

TokenBucketTake(tokens, n) ==
    IF TokenBucketAllowed(tokens, n) THEN tokens - n * WindowTicks ELSE tokens

(* time.Duration(tokensNeeded/refillRate) * time.Second, in ticks *)
SecondsToRefill(cfg, tokensNeeded) ==
    Trunc(tokensNeeded, TicksPerSecond * cfg.limit) * TicksPerSecond

(* RetryAfter set without the test of !allowed *)
TokenBucketRetryAfter_Always(cfg, allowed, tokens, n) ==
    << SecondsToRefill(cfg, n * WindowTicks - tokens) >>

TokenBucketRetryAfter(cfg, allowed, tokens, n) ==
    IF ~allowed THEN << SecondsToRefill(cfg, n * WindowTicks - tokens) >> ELSE << >>

TokenBucketInfo(cfg, allowed, tokens, n, now) ==
    LimitInfo(Capacity(cfg),
              Trunc(tokens, WindowTicks),
              now + SecondsToRefill(cfg, Capacity(cfg) * WindowTicks - tokens),
              TokenBucketRetryAfter(cfg, allowed, tokens, n))

TokenBucketAllowN(st, cfg, key, n, now) ==
    LET got      == GetTokens(st, key)
        refilled == TokenBucketRefill(cfg, got, now)
        allowed  == TokenBucketAllowed(refilled, n)
        tokens   == TokenBucketTake(refilled, n)
    IN  IF SetTokensErr(st) THEN Failed(st)
        ELSE [allowed |-> allowed, err |-> FALSE,
              info  |-> TokenBucketInfo(cfg, allowed, tokens, n, now),
              store |-> SetTokens(st, key, tokens, now)]

TokenBucketReset(st, key) == IF DeleteErr(st) THEN st ELSE Delete(st, key)

(***************************************************************************)
(* Sliding window counter.  The weighted count is held times WindowTicks.  *)
(***************************************************************************)
(* a weight of the previous window that grows with the time spent in the  *)
(* current window                                                          *)
WeightedCount_Rising(currentCount, previousCount, now) ==
    LET elapsedInCurrentWindow == now - Truncate(now, WindowTicks)
    IN  currentCount * WindowTicks + previousCount * elapsedInCurrentWindow

WeightedCount(currentCount, previousCount, now) ==
    LET elapsedInCurrentWindow == now - Truncate(now, WindowTicks)
    IN  currentCount * WindowTicks
          + previousCount * (WindowTicks - elapsedInCurrentWindow)

(* the previous window counted in full, whatever the time spent in the     *)
(* current window                                                          *)
SlidingWindowAllowed_Unweighted(cfg, windows, n, now) ==
    LET currentWindow == Truncate(now, WindowTicks)
    IN  CountAt(windows, currentWindow) + CountAt(windows, currentWindow - WindowTicks)
          + n <= cfg.limit

SlidingWindowAllowed(cfg, windows, n, now) ==
    LET currentWindow == Truncate(now, WindowTicks)
    IN  WeightedCount(CountAt(windows, currentWindow),
                      CountAt(windows, currentWindow - WindowTicks), now)
          + n * WindowTicks <= cfg.limit * WindowTicks

SlidingWindowRetryAfter(allowed, resetAt, now) ==
    IF ~allowed THEN << resetAt - now >> ELSE << >>

SlidingWindowInfo(cfg, allowed, currentCount, previousCount, now) ==
    LET resetAt == Truncate(now, WindowTicks) + WindowTicks
    IN  LimitInfo(cfg.limit,
                  Max(0, Trunc(cfg.limit * WindowTicks
                                 - WeightedCount(currentCount, previousCount, now),
                               WindowTicks)),
                  resetAt,
                  SlidingWindowRetryAfter(allowed, resetAt, now))

SlidingWindowAllowN(st, cfg, key, n, now) ==
    LET currentWindow  == Truncate(now, WindowTicks)
        previousWindow == currentWindow - WindowTicks
        windows        == GetWindows(st, key, previousWindow, now)
        previousCount  == CountAt(windows, previousWindow)
        allowed        == SlidingWindowAllowed(cfg, windows, n, now)
        inc            == Increment(st, key, currentWindow)
        currentCount   == IF allowed THEN inc.count ELSE CountAt(windows, currentWindow)
    IN  IF GetWindowsErr(st) \/ (allowed /\ inc.err) THEN Failed(st)
        ELSE [allowed |-> allowed, err |-> FALSE,
              info  |-> SlidingWindowInfo(cfg, allowed, currentCount, previousCount, now),
              store |-> IF allowed THEN inc.store ELSE st]

SlidingWindowReset(st, key) == IF DeleteErr(st) THEN st ELSE Delete(st, key)

(***************************************************************************)
(* Fixed window counter.                                                   *)
(***************************************************************************)
FixedWindowAllowed(cfg, windows, n, now) ==
    CountAt(windows, Truncate(now, WindowTicks)) + n <= cfg.limit

FixedWindowRetryAfter(allowed, resetAt, now) ==
    IF ~allowed THEN << resetAt - now >> ELSE << >>

FixedWindowInfo(cfg, allowed, currentCount, now) ==
    LET resetAt == Truncate(now, WindowTicks) + WindowTicks
    IN  LimitInfo(cfg.limit, Max(0, cfg.limit - currentCount), resetAt,
                  FixedWindowRetryAfter(allowed, resetAt, now))

(* an AllowN that calls store.Increment before it looks at allowed *)
FixedWindowAllowN_AlwaysIncrement(st, cfg, key, n, now) ==
    LET currentWindow == Truncate(now, WindowTicks)
        windows       == GetWindows(st, key, currentWindow, now)
        allowed       == FixedWindowAllowed(cfg, windows, n, now)
        inc           == Increment(st, key, currentWindow)
    IN  IF GetWindowsErr(st) \/ inc.err THEN Failed(st)
        ELSE [allowed |-> allowed, err |-> FALSE,
              info  |-> FixedWindowInfo(cfg, allowed, inc.count, now),
              store |-> inc.store]

FixedWindowAllowN(st, cfg, key, n, now) ==
    LET currentWindow == Truncate(now, WindowTicks)
        windows       == GetWindows(st, key, currentWindow, now)
        allowed       == FixedWindowAllowed(cfg, windows, n, now)
        inc           == Increment(st, key, currentWindow)
        currentCount  == IF allowed THEN inc.count ELSE CountAt(windows, currentWindow)
    IN  IF GetWindowsErr(st) \/ (allowed /\ inc.err) THEN Failed(st)
        ELSE [allowed |-> allowed, err |-> FALSE,
              info  |-> FixedWindowInfo(cfg, allowed, currentCount, now),
              store |-> IF allowed THEN inc.store ELSE st]

FixedWindowReset(st, key) == IF DeleteErr(st) THEN st ELSE Delete(st, key)

(* limiter.RateLimiter: dispatch on the algorithm instance *)
AllowN(alg, st, cfg, key, n, now) ==
    CASE alg = "token_bucket"   -> TokenBucketAllowN(st, cfg, key, n, now)
      [] alg = "sliding_window" -> SlidingWindowAllowN(st, cfg, key, n, now)
      [] alg = "fixed_window"   -> FixedWindowAllowN(st, cfg, key, n, now)

Reset(alg, st, key) ==
    CASE alg = "token_bucket"   -> TokenBucketReset(st, key)
      [] alg = "sliding_window" -> SlidingWindowReset(st, key)
      [] alg = "fixed_window"   -> FixedWindowReset(st, key)

(***************************************************************************)
(* State.                                                                  *)
(*   now    the wall clock read by time.Now()                              *)
(*   cfg    limiter.Config handed to the three constructors in main        *)
(*   store  the store instance shared by the three algorithm instances     *)
(*   last   the outcome of the latest handler call                         *)
(*   hist   per key, the decides made on it since it was last cold         *)
(*   procs, mu, inst   in-flight AllowN calls, the algorithm mutexes and   *)
(*          the service instance each call runs in                         *)
(*   metrics  what the latest handler call added to the request counters   *)
(*          (requests_total, requests_allowed, requests_denied) of its     *)
(*          label pair; the counters are write-only for the service, so    *)
(*          the model keeps them relative to their value before the call   *)
(***************************************************************************)
VARIABLES now, cfg, store, last, hist, procs, mu, inst, metrics

vars == <<now, cfg, store, last, hist, procs, mu, inst, metrics>>

Procs == 1 .. NProcs

(* a mutex holds the number of the call that locked it *)
Unlocked == 0
Instances == {"i1", "i2"}

(* the count values a POST /v1/check body carries *)
Counts == (-1) .. Limit

NoInfo == LimitInfo(0, 0, 0, << >>)

NoCall == [op |-> "none", algorithm |-> "", key |-> "", n |-> 0,
           status |-> 0, allowed |-> FALSE, info |-> NoInfo, fresh |-> "no"]

(* hist[key].origin says how the key came to be cold: "never" seen,        *)
(* "reset" after it held state, or "reset_unused".                         *)
(* hist[key] summarises the run of positive-cost decides that one          *)
(* algorithm made on the key since it was cold, while the clock stays      *)
(* inside the window in which the run started: len decides, the first at   *)
(* start and the latest at at, asking for sum units in all, of which spent *)
(* were allowed; unit says that every decide of the run had cost 1.  A run *)
(* is followed for MaxRun decides and up to its first denial.              *)
HistCold(origin) ==
    [alg |-> "none", origin |-> origin, start |-> 0, at |-> 0, len |-> 0,
     sum |-> 0, spent |-> 0, unit |-> TRUE]

HistBroken ==
    [alg |-> "broken", origin |-> "no", start |-> 0, at |-> 0, len |-> 0,
     sum |-> 0, spent |-> 0, unit |-> FALSE]

HistAppend(h, alg, n, t, allowed) ==
    IF h.alg = "broken" \/ n < 1 \/ h.spent < h.sum THEN HistBroken
    ELSE IF h.alg = "none"
    THEN [alg |-> alg, origin |-> "no", start |-> t, at |-> t, len |-> 1,
          sum |-> n, spent |-> IF allowed THEN n ELSE 0, unit |-> (n = 1)]
    ELSE IF h.alg = alg /\ Truncate(t, WindowTicks) = Truncate(h.start, WindowTicks)
            /\ h.len < MaxRun
    THEN [h EXCEPT !.at = t, !.len = @ + 1, !.sum = @ + n,
                   !.spent = IF allowed THEN @ + n ELSE @,
                   !.unit = @ /\ (n = 1)]
    ELSE HistBroken

Fresh(h) == IF h.alg = "none" THEN h.origin ELSE "no"

StoredTokens(st, key) == GetTokens(st, key).tokens

Idle == [pc |-> "idle"]

NoMetrics == [requestsTotal |-> 0, requestsAllowed |-> 0, requestsDenied |-> 0]

(* Metrics.RecordRequest *)
RecordRequest(m, allowed) ==
    [requestsTotal   |-> m.requestsTotal + 1,
     requestsAllowed |-> IF allowed THEN m.requestsAllowed + 1 ELSE m.requestsAllowed,
     requestsDenied  |-> IF allowed THEN m.requestsDenied ELSE m.requestsDenied + 1]

SeqInit(stores, configs) ==
    /\ now = 0
    /\ cfg \in configs
    /\ store \in stores
    /\ last = NoCall
    /\ hist = [k \in Keys |-> HistCold("never")]
    /\ procs = [p \in Procs |-> Idle]
    /\ mu = [i \in Instances |-> [a \in Algorithms |-> Unlocked]]
    /\ inst = [p \in Procs |-> "i1"]
    /\ metrics = NoMetrics

Init == SeqInit({NewMemoryStore, NewRedisStore}, Configs)

(***************************************************************************)
(* Handlers.                                                               *)
(***************************************************************************)
SelectAlgorithm(algorithm) == IF algorithm = "" THEN cfg.default ELSE algorithm

BadRequest(op, algorithm, key, n) ==
    [op |-> op, algorithm |-> algorithm, key |-> key, n |-> n,
     status |-> 400, allowed |-> FALSE, info |-> NoInfo, fresh |-> "no"]

(* http.StatusInternalServerError: the limiter returned an error *)
InternalServerError(op, algorithm, key, n) ==
    [op |-> op, algorithm |-> algorithm, key |-> key, n |-> n,
     status |-> 500, allowed |-> FALSE, info |-> NoInfo, fresh |-> "no"]

(* Check records the request in the metrics whenever AllowN returned an error *)
Recorded_OnError(res) == RecordRequest(NoMetrics, res.allowed)

(* Check returns on err != nil before h.metrics.RecordRequest *)
Recorded(res) == IF res.err THEN NoMetrics ELSE RecordRequest(NoMetrics, res.allowed)

(* POST /v1/check *)
Check(key, reqAlgorithm, reqCount) ==
    LET count     == IF reqCount = 0 THEN 1 ELSE reqCount
        algorithm == SelectAlgorithm(reqAlgorithm)
    IN  IF algorithm \notin Algorithms
        THEN /\ last' = BadRequest("check", algorithm, key, count)
             /\ metrics' = NoMetrics
             /\ UNCHANGED <<now, cfg, store, hist, procs, mu, inst>>
        ELSE LET res == AllowN(algorithm, store, cfg, key, count, now)
             IN  /\ store' = res.store
                 /\ metrics' = Recorded(res)
                 /\ last' = IF res.err
                            THEN InternalServerError("check", algorithm, key, count)
                            ELSE [op |-> "check", algorithm |-> algorithm, key |-> key,
                                  n |-> count,
                                  status |-> IF res.allowed THEN 200 ELSE 429,
                                  allowed |-> res.allowed, info |-> res.info,
                                  fresh |-> Fresh(hist[key])]
                 /\ hist' = IF res.err THEN hist
                            ELSE [hist EXCEPT ![key] =
                                    HistAppend(@, algorithm, count, now, res.allowed)]
                 /\ UNCHANGED <<now, cfg, procs, mu, inst>>

(* GET /v1/status/:key *)
GetStatus(key, reqAlgorithm) ==
    LET algorithm == SelectAlgorithm(reqAlgorithm)
    IN  IF algorithm \notin Algorithms
        THEN /\ last' = BadRequest("status", algorithm, key, 0)
             /\ metrics' = NoMetrics
             /\ UNCHANGED <<now, cfg, store, hist, procs, mu, inst>>
        ELSE LET res == AllowN(algorithm, store, cfg, key, 0, now)
             IN  /\ store' = res.store
                 /\ metrics' = NoMetrics
                 /\ last' = IF res.err
                            THEN InternalServerError("status", algorithm, key, 0)
                            ELSE [op |-> "status", algorithm |-> algorithm, key |-> key,
                                  n |-> 0, status |-> 200,
                                  allowed |-> res.allowed, info |-> res.info,
                                  fresh |-> Fresh(hist[key])]
                 /\ hist' = IF res.err THEN hist
                            ELSE [hist EXCEPT ![key] =
                                    HistAppend(@, algorithm, 0, now, res.allowed)]
                 /\ UNCHANGED <<now, cfg, procs, mu, inst>>

(* POST /v1/reset/:key *)
ResetKey(key, reqAlgorithm) ==
    LET algorithm == SelectAlgorithm(reqAlgorithm)
    IN  IF algorithm \notin Algorithms
        THEN /\ last' = BadRequest("reset", algorithm, key, 0)
             /\ metrics' = NoMetrics
             /\ UNCHANGED <<now, cfg, store, hist, procs, mu, inst>>
        ELSE IF DeleteErr(store)
        THEN /\ last' = InternalServerError("reset", algorithm, key, 0)
             /\ metrics' = NoMetrics
             /\ UNCHANGED <<now, cfg, store, hist, procs, mu, inst>>
        ELSE /\ store' = Reset(algorithm, store, key)
             /\ metrics' = NoMetrics
             /\ last' = [op |-> "reset", algorithm |-> algorithm, key |-> key,
                         n |-> 0, status |-> 200, allowed |-> FALSE,
                         info |-> NoInfo, fresh |-> Fresh(hist[key])]
             /\ hist' = [hist EXCEPT ![key] =
                           HistCold(IF Delete(store, key) # store
                                    THEN "reset" ELSE "reset_unused")]
             /\ UNCHANGED <<now, cfg, procs, mu, inst>>

(* the clock advances *)
Tick ==
    /\ now < MaxTime
    /\ now' = now + 1
    /\ UNCHANGED <<cfg, store, last, hist, procs, mu, inst, metrics>>

(* clients name no algorithm (the configured default is used) or an unknown one *)
RequestAlgorithms == {"", "bogus"}

Next ==
    \/ \E a \in RequestAlgorithms, c \in Counts : Check("k1", a, c)
    \/ \E a \in RequestAlgorithms : GetStatus("k1", a)
    \/ \E a \in RequestAlgorithms : ResetKey("k1", a)
    \/ Tick

Spec == Init /\ [][Next]_vars

(***************************************************************************)
(* Traffic on several keys through all three algorithms.  Every request    *)
(* names its algorithm; the clock is held fixed.                           *)
(***************************************************************************)
KeysInit ==
    /\ SeqInit({NewMemoryStore, NewRedisStore}, {Config(ConcLimit, 0, "token_bucket")})

KeysNext ==
    \/ \E k \in Keys, a \in Algorithms : Check(k, a, 1)
    \/ \E a \in Algorithms : GetStatus("k1", a)
    \/ \E a \in Algorithms : ResetKey("k1", a)

SpecKeys == KeysInit /\ [][KeysNext]_vars

(***************************************************************************)
(* Waiting for the next window.  Requests on one key are answered by the   *)
(* fixed window counter; between them the client sleeps for a window and a *)
(* little more, as TestFixedWindowCounter_WindowReset does.                *)
(***************************************************************************)
WindowInit == SeqInit({NewMemoryStore, NewRedisStore}, {Config(Limit, 0, "fixed_window")})

(* time.Sleep(window + e): the clock comes to stand in the next aligned     *)
(* window                                                                  *)
Sleep(e) ==
    /\ now < MaxSleeps * WindowTicks
    /\ (now % WindowTicks) + e < WindowTicks
    /\ now' = now + WindowTicks + e
    /\ UNCHANGED <<cfg, store, last, hist, procs, mu, inst, metrics>>

WindowNext ==
    \/ \E c \in Counts : Check("k1", "", c)
    \/ GetStatus("k1", "")
    \/ Tick
    \/ \E e \in 0 .. (WindowTicks - 1) : Sleep(e)

SpecWindow == WindowInit /\ [][WindowNext]_vars

(* the same traffic answered by the sliding window counter, as             *)
(* TestSlidingWindowCounter_SlidingBehavior does                           *)
SlideInit == SeqInit({NewMemoryStore, NewRedisStore}, {Config(Limit, 0, "sliding_window")})

SpecSlide == SlideInit /\ [][WindowNext]_vars

(***************************************************************************)
(* Clock skew.  Requests on one key are answered by the token bucket; the  *)
(* next request may be served with a clock reading that lies behind the    *)
(* one of the request before it (another instance on the shared store      *)
(* whose clock lags, or a wall clock set back).                            *)
(***************************************************************************)
SkewInit ==
    SeqInit({NewMemoryStore, NewRedisStore},
            {Config(Limit, 0, "token_bucket"), Config(Limit, Limit + 1, "token_bucket")})

(* time.Now() returns an instant d ticks before the latest reading *)
Lag(d) ==
    /\ now - d >= 0
    /\ now' = now - d
    /\ UNCHANGED <<cfg, store, last, hist, procs, mu, inst, metrics>>

SkewNext ==
    \/ \E c \in {1, Limit} : Check("k1", "", c)
    \/ GetStatus("k1", "")
    \/ Tick
    \/ \E d \in 1 .. WindowTicks : Lag(d)

SpecSkew == SkewInit /\ [][SkewNext]_vars

(***************************************************************************)
(* The rate of a bucket.  One service instance with the memory store       *)
(* answers decides on key "k1" by the token bucket; hist["k1"] holds the   *)
(* instant t0 of the first decide, the instant tk of the latest and the    *)
(* sum of the costs of the decides that returned allow.                    *)
(***************************************************************************)
RateConfigs == {Config(Limit, 0, "token_bucket"), Config(Limit, Limit + 1, "token_bucket")}

NoDecides == [len |-> 0, t0 |-> 0, tk |-> 0, granted |-> 0]

RateInit ==
    /\ now = 0
    /\ cfg \in RateConfigs
    /\ store = NewMemoryStore
    /\ last = NoCall
    /\ hist = [k \in Keys |-> NoDecides]
    /\ procs = [p \in Procs |-> Idle]
    /\ mu = [i \in Instances |-> [a \in Algorithms |-> Unlocked]]
    /\ inst = [p \in Procs |-> "i1"]
    /\ metrics = NoMetrics

(* the costs of the decides: probes and requests up to one more than the   *)
(* largest capacity                                                        *)
RateCosts == 0 .. (Limit + 2)

(* TokenBucket.AllowN(key, n) *)
Decide(key, n) ==
    LET res == TokenBucketAllowN(store, cfg, key, n, now)
        h   == hist[key]
    IN  /\ ~res.err
        /\ store' = res.store
        /\ last' = [op |-> "check", algorithm |-> "token_bucket", key |-> key, n |-> n,
                    status |-> IF res.allowed THEN 200 ELSE 429,
                    allowed |-> res.allowed, info |-> res.info, fresh |-> "no"]
        /\ hist' = [hist EXCEPT ![key] =
                      [len     |-> IF h.len < MaxRun THEN h.len + 1 ELSE h.len,
                       t0      |-> IF h.len = 0 THEN now ELSE h.t0,
                       tk      |-> now,
                       granted |-> IF res.allowed THEN h.granted + n ELSE h.granted]]
        /\ UNCHANGED <<now, cfg, procs, mu, inst, metrics>>

RateNext ==
    \/ \E n \in RateCosts : Decide("k1", n)
    \/ Tick

SpecRate == RateInit /\ [][RateNext]_vars

(***************************************************************************)
(* The key of a request.  POST /v1/check carries an identifier and a       *)
(* resource, any two strings; a string is held as the sequence of its      *)
(* characters.  The clock is held fixed.                                   *)
(***************************************************************************)
Identifiers == { <<"a">>, <<"a", ":", "b">> }

Resources == { <<"c">>, <<"b", ":", "c">> }

(* key := req.Identifier + ":" + req.Resource *)
RateLimitKey(identifier, resource) == identifier \o <<":">> \o resource

PairInit == SeqInit({NewMemoryStore, NewRedisStore}, { Config(ConcLimit, 0, a) : a \in Algorithms })

(* POST /v1/check with identifier, resource and count 1, no algorithm named *)
CheckPair(identifier, resource) ==
    LET key == RateLimitKey(identifier, resource)
        res == AllowN(cfg.default, store, cfg, key, 1, now)
    IN  /\ store' = res.store
        /\ metrics' = Recorded(res)
        /\ last' = IF res.err
                   THEN InternalServerError("check", cfg.default, key, 1)
                   ELSE [op |-> "check", algorithm |-> cfg.default, key |-> key,
                         n |-> 1, status |-> IF res.allowed THEN 200 ELSE 429,
                         allowed |-> res.allowed, info |-> res.info, fresh |-> "no",
                         identifier |-> identifier, resource |-> resource]
        /\ UNCHANGED <<now, cfg, hist, procs, mu, inst>>

PairNext == \E i \in Identifiers, r \in Resources : CheckPair(i, r)

SpecPairs == PairInit /\ [][PairNext]_vars

(***************************************************************************)
(* Eviction.  NewMemoryStore starts the cleanup goroutine, which on every  *)
(* tick of its ticker removes the window records older than 24 hours.  The *)
(* service is configured with a window of 24 hours or more, so that        *)
(* records grow old while the model runs: 24 hours are CleanupTTL model    *)
(* ticks here.  procs holds the state of the goroutine and whether Close   *)
(* has been called on the store.                                           *)
(***************************************************************************)
(* 24 * time.Hour *)
CleanupTTL == 2

(* a pass that also removes the records that are exactly 24 hours old *)
MemoryCleanup_Inclusive(st, t) ==
    LET cutoff == t - CleanupTTL
    IN  [st EXCEPT !.counters =
           [k \in DOMAIN @ |-> [w \in { u \in DOMAIN @[k] : u > cutoff } |-> @[k][w]]]]

(* one pass of MemoryStore.cleanup, begun at instant t *)
MemoryCleanup(st, t) ==
    LET cutoff == t - CleanupTTL
    IN  [st EXCEPT !.counters =
           [k \in DOMAIN @ |-> [w \in { u \in DOMAIN @[k] : ~(u < cutoff) } |-> @[k][w]]]]

EvictInit ==
    /\ now = 0
    /\ cfg \in { Config(ConcLimit, 0, a) : a \in WindowAlgorithms }
    /\ store = NewMemoryStore
    /\ last = NoCall
    /\ hist = [k \in Keys |-> HistCold("never")]
    /\ procs = [cleanup |-> "running", closed |-> FALSE]
    /\ mu = [i \in Instances |-> [a \in Algorithms |-> Unlocked]]
    /\ inst = [p \in Procs |-> "i1"]
    /\ metrics = NoMetrics

(* the ticker of cleanup fires and the pass runs *)
Cleanup ==
    /\ procs.cleanup = "running"
    /\ store' = MemoryCleanup(store, now)
    /\ last' = [NoCall EXCEPT !.op = "cleanup"]
    /\ UNCHANGED <<now, cfg, hist, procs, mu, inst, metrics>>

(* MemoryStore.Close: returns nil *)
Close ==
    /\ ~procs.closed
    /\ procs' = [procs EXCEPT !.closed = TRUE]
    /\ UNCHANGED <<now, cfg, store, last, hist, mu, inst, metrics>>

(* a window counter allows a request on the key and counts it:            *)
(* store.Increment(key, currentWindow); a window is incremented up to one  *)
(* more than the limit                                                     *)
Count(key) ==
    LET inc == MemoryIncrement(store, key, Truncate(now, WindowTicks))
    IN  /\ ~procs.closed
        /\ inc.count <= cfg.limit + 1
        /\ store' = inc.store
        /\ last' = [NoCall EXCEPT !.op = "increment", !.key = key]
        /\ UNCHANGED <<now, cfg, hist, procs, mu, inst, metrics>>

EvictNext ==
    \/ \E k \in Keys : Count(k)
    \/ Cleanup
    \/ Close
    \/ Tick

SpecEvict == EvictInit /\ [][EvictNext]_vars

(***************************************************************************)
(* Store failures.  The redis server becomes unreachable for some of the   *)
(* store operations and recovers, between requests on one key that use the *)
(* default algorithm; the clock is held fixed.                             *)
(***************************************************************************)
FaultInit == SeqInit({NewRedisStore}, Configs)

(* one operation fails (a transient error of its command), or the server   *)
(* is unreachable and all of them fail                                     *)
Faults == { {op} : op \in StoreOps } \cup {StoreOps}

(* the commands of the operations ops start to fail *)
Fail(ops) ==
    /\ store.kind = "redis"
    /\ store.failing = {}
    /\ store' = [store EXCEPT !.failing = ops]
    /\ UNCHANGED <<now, cfg, last, hist, procs, mu, inst, metrics>>

(* all commands succeed again *)
Recover ==
    /\ store.failing # {}
    /\ store' = [store EXCEPT !.failing = {}]
    /\ UNCHANGED <<now, cfg, last, hist, procs, mu, inst, metrics>>

FaultNext ==
    \/ \E c \in Counts : Check("k1", "", c)
    \/ GetStatus("k1", "")
    \/ ResetKey("k1", "")
    \/ \E ops \in Faults : Fail(ops)
    \/ Recover

SpecFault == FaultInit /\ [][FaultNext]_vars

(***************************************************************************)
(* Malformed values.  The hashes of key "k1" live in a redis server that   *)
(* other clients write to as well; one of them leaves a text that is no    *)
(* number in the hash that the default algorithm reads, one such text at a *)
(* time.                                                                   *)
(***************************************************************************)
(* the hash that the algorithm reads for the key holds a field or a value  *)
(* that is no number                                                       *)
Malformed(st, alg, key) ==
    IF alg = "token_bucket"
    THEN \E f \in DOMAIN Lookup(st.tokens, key, EmptyMap) :
            ParseNum(st.tokens[key][f]).err
    ELSE \E f \in DOMAIN Lookup(st.counters, key, EmptyMap) :
            ParseNum(f).err \/ ParseNum(st.counters[key][f]).err

ShapeInit == SeqInit({NewRedisStore}, Configs)

(* the fields of "tokens:<key>" *)
TokenFields == {"tokens", "last_refill"}

(* the fields of "window:<key>" that a decide at the clock reads, and a    *)
(* field that is no timestamp                                              *)
WindowFields ==
    { Unix(Truncate(now, WindowTicks)), Unix(Truncate(now, WindowTicks) - WindowTicks),
      NotANumber }

(* HSET tokens:<key> <field> <text> by another client *)
CorruptTokens(key, field) ==
    /\ store.kind = "redis"
    /\ cfg.default = "token_bucket"
    /\ ~Malformed(store, cfg.default, key)
    /\ store' = RedisHSet(store, key, field, NotANumber)
    /\ last' = NoCall
    /\ UNCHANGED <<now, cfg, hist, procs, mu, inst, metrics>>

(* HSET window:<key> <field> <text> by another client; under a field that  *)
(* is no timestamp the value is a count                                    *)
CorruptWindow(key, field) ==
    /\ store.kind = "redis"
    /\ cfg.default # "token_bucket"
    /\ ~Malformed(store, cfg.default, key)
    /\ store' = [store EXCEPT !.counters =
                    Put(@, key, Put(Lookup(@, key, EmptyMap), field,
                                    IF field = NotANumber THEN 1 ELSE NotANumber))]
    /\ last' = NoCall
    /\ UNCHANGED <<now, cfg, hist, procs, mu, inst, metrics>>

ShapeNext ==
    \/ Check("k1", "", 1)
    \/ GetStatus("k1", "")
    \/ Tick
    \/ \E f \in TokenFields : CorruptTokens("k1", f)
    \/ \E f \in WindowFields : CorruptWindow("k1", f)

SpecShape == ShapeInit /\ [][ShapeNext]_vars

(***************************************************************************)
(* The two implementations of limiter.Store side by side.  One client      *)
(* makes the same calls on a MemoryStore and on a RedisStore; store holds  *)
(* the pair and last what the two returned to the latest call.  Window     *)
(* starts and refill instants are arbitrary instants, whole seconds or     *)
(* not.                                                                    *)
(***************************************************************************)
Instants == 0 .. TicksPerSecond

(* token counts the client stores *)
TokenValues == 0 .. ConcLimit

StoreInit ==
    /\ now = 0
    /\ cfg = Config(Limit, 0, "token_bucket")
    /\ store = [memory |-> NewMemoryStore, redis |-> NewRedisStore]
    /\ last = [op |-> "none", memory |-> [err |-> FALSE], redis |-> [err |-> FALSE]]
    /\ hist = [k \in Keys |-> HistCold("never")]
    /\ procs = [p \in Procs |-> Idle]
    /\ mu = [i \in Instances |-> [a \in Algorithms |-> Unlocked]]
    /\ inst = [p \in Procs |-> "i1"]
    /\ metrics = NoMetrics

(* Store.Increment(key, window); a window is incremented ConcLimit times   *)
(* at most                                                                 *)
StoreIncrement(key, window) ==
    LET m == MemoryIncrement(store.memory, key, window)
        r == RedisIncrement(store.redis, key, window)
    IN  /\ m.count <= ConcLimit
        /\ store' = [memory |-> m.store, redis |-> r.store]
        /\ last' = [op |-> "increment",
                    memory |-> [count |-> m.count, err |-> m.err],
                    redis  |-> [count |-> r.count, err |-> r.err]]
        /\ UNCHANGED <<now, cfg, hist, procs, mu, inst, metrics>>

(* Store.GetWindows(key, from, to) *)
StoreGetWindows(key, from, to) ==
    /\ last' = [op |-> "get_windows",
                memory |-> [windows |-> MemoryGetWindows(store.memory, key, from, to),
                            err |-> FALSE],
                redis  |-> [windows |-> RedisGetWindows(store.redis, key, from, to),
                            err |-> GetWindowsErr(store.redis)]]
    /\ UNCHANGED <<now, cfg, store, hist, procs, mu, inst, metrics>>

(* Store.SetTokens(key, tokens, lastRefill) *)
StoreSetTokens(key, tokens, lastRefill) ==
    /\ store' = [memory |-> MemorySetTokens(store.memory, key, tokens, lastRefill),
                 redis  |-> RedisSetTokens(store.redis, key, tokens, lastRefill)]
    /\ last' = [op |-> "set_tokens", memory |-> [err |-> FALSE],
                redis |-> [err |-> SetTokensErr(store.redis)]]
    /\ UNCHANGED <<now, cfg, hist, procs, mu, inst, metrics>>

(* Store.GetTokens(key) *)
StoreGetTokens(key) ==
    /\ last' = [op |-> "get_tokens",
                memory |-> MemoryGetTokens(store.memory, key),
                redis  |-> RedisGetTokens(store.redis, key)]
    /\ UNCHANGED <<now, cfg, store, hist, procs, mu, inst, metrics>>

(* Store.Delete(key) *)
StoreDelete(key) ==
    /\ store' = [memory |-> MemoryDelete(store.memory, key),
                 redis  |-> RedisDelete(store.redis, key)]
    /\ last' = [op |-> "delete", memory |-> [err |-> FALSE],
                redis |-> [err |-> DeleteErr(store.redis)]]
    /\ UNCHANGED <<now, cfg, hist, procs, mu, inst, metrics>>

StoreNext ==
    \/ \E w \in Instants : StoreIncrement("k1", w)
    \/ \E from, to \in Instants : StoreGetWindows("k1", from, to)
    \/ \E x \in TokenValues, t \in Instants : StoreSetTokens("k1", x, t)
    \/ StoreGetTokens("k1")
    \/ StoreDelete("k1")

SpecStore == StoreInit /\ [][StoreNext]_vars

(***************************************************************************)
(* Startup.  cfg holds the content of the configuration file, and after    *)
(* main has run the config.Config it serves with; last.op is the position  *)
(* of the process: "start", "serving", or "fatal" after log.Fatalf.        *)
(***************************************************************************)
(* the values config.Load puts in place of an absent limits.default; the   *)
(* source has 100 requests per minute                                      *)
DefaultRequests == Limit

DefaultWindow == WindowSeconds

(* a configuration file: unreadable (missing, or no YAML), or the values   *)
(* of limits.default, algorithms.default and store, 0 and "" when absent   *)
ConfigFile(readable, requests, window, burst, default, storeType) ==
    [readable |-> readable, requests |-> requests, window |-> window,
     burst |-> burst, default |-> default, store |-> storeType]

ConfigFiles ==
    { ConfigFile(FALSE, 0, 0, 0, "", "") }
      \cup { ConfigFile(TRUE, r, w, b, d, st) :
                r \in {-1, 0, Limit}, w \in {-1, 0, WindowSeconds}, b \in {0, Limit + 1},
                d \in {"", "sliding_window", "bogus"},
                st \in {"", "memory", "redis", "bogus"} }

DefaultConfig ==
    [requests |-> DefaultRequests, window |-> DefaultWindow, burst |-> Limit + 1,
     default |-> "token_bucket", store |-> "memory"]

(* config.Load: the values of the file, defaults in place of zero values;  *)
(* no value is validated                                                   *)
Load(file) ==
    [err    |-> ~file.readable,
     config |-> [requests |-> IF file.requests = 0 THEN DefaultRequests ELSE file.requests,
                 window   |-> IF file.window = 0 THEN DefaultWindow ELSE file.window,
                 burst    |-> file.burst,
                 default  |-> IF file.default = "" THEN "token_bucket" ELSE file.default,
                 store    |-> IF file.store = "" THEN "memory" ELSE file.store]]

LoadOrDefault(file) == IF Load(file).err THEN DefaultConfig ELSE Load(file).config

BootInit ==
    /\ now = 0
    /\ cfg \in ConfigFiles
    /\ store = [kind |-> "none"]
    /\ last = [op |-> "start"]
    /\ hist = [k \in Keys |-> HistCold("never")]
    /\ procs = [p \in Procs |-> Idle]
    /\ mu = [i \in Instances |-> [a \in Algorithms |-> Unlocked]]
    /\ inst = [p \in Procs |-> "i1"]
    /\ metrics = NoMetrics

(* main up to srv.ListenAndServe; pingOk is the answer of the redis server *)
(* to the Ping of NewRedisStore                                            *)
Main(pingOk) ==
    LET config == LoadOrDefault(cfg)
    IN  /\ last.op = "start"
        /\ cfg' = config
        /\ IF config.store = "redis"
           THEN IF pingOk
                THEN store' = NewRedisStore /\ last' = [op |-> "serving"]
                ELSE store' = store /\ last' = [op |-> "fatal"]
           ELSE store' = NewMemoryStore /\ last' = [op |-> "serving"]
        /\ UNCHANGED <<now, hist, procs, mu, inst, metrics>>

BootNext == \E pingOk \in BOOLEAN : Main(pingOk)

SpecBoot == BootInit /\ [][BootNext]_vars

(***************************************************************************)
(* Concurrent decides.  Each process is one in-flight AllowN call of the   *)
(* default algorithm on key "k1"; its steps are the store calls it makes   *)
(* between taking and releasing the mutex of its algorithm instance.  The  *)
(* clock is held fixed.  With the memory store all calls run in one        *)
(* service instance; with the redis store they are spread over two, each   *)
(* with its own algorithm objects and hence its own mutexes.               *)
(***************************************************************************)
ConcKey == "k1"

ConcCounts == {1, 2}

ConcConfigs == { Config(ConcLimit, 0, a) : a \in Algorithms }

ConcInit ==
    /\ now \in {0, 1}
    /\ cfg \in ConcConfigs
    /\ store \in {NewMemoryStore, NewRedisStore}
    /\ last = NoCall
    /\ hist = [k \in Keys |-> HistCold("never")]
    /\ procs = [p \in Procs |-> Idle]
    /\ mu = [i \in Instances |-> [a \in Algorithms |-> Unlocked]]
    /\ inst = [p \in Procs |-> IF store.kind = "redis" /\ p % 2 = 0 THEN "i2" ELSE "i1"]
    /\ metrics = NoMetrics

(* AllowN without mu.Lock() *)
MutexFree_NoLock(i, a) == TRUE

(* mu.Lock() succeeds when no call of the same algorithm instance holds it *)
MutexFree(i, a) == mu[i][a] = Unlocked

(* a request arrives and its AllowN does mu.Lock(); now := time.Now().     *)
(* Calls are numbered in the order in which they take their mutex.         *)
Lock(p, n) ==
    /\ procs[p].pc = "idle"
    /\ \A q \in Procs : q < p => procs[q].pc # "idle"
    /\ MutexFree(inst[p], cfg.default)
    /\ mu' = [mu EXCEPT ![inst[p]][cfg.default] = p]
    /\ procs' = [procs EXCEPT ![p] = [pc |-> "read", n |-> n, now |-> now]]
    /\ UNCHANGED <<now, cfg, store, last, hist, inst, metrics>>

(* TokenBucket.AllowN: GetTokens, then the refill and the decision *)
TokenBucketGet(p) ==
    LET me       == procs[p]
        refilled == TokenBucketRefill(cfg, GetTokens(store, ConcKey), me.now)
    IN  /\ me.pc = "read"
        /\ cfg.default = "token_bucket"
        /\ procs' = [procs EXCEPT ![p] =
                       [pc |-> IF store.kind = "memory" THEN "set" ELSE "hset_tokens",
                        n |-> me.n, now |-> me.now,
                        allowed |-> TokenBucketAllowed(refilled, me.n),
                        tokens |-> TokenBucketTake(refilled, me.n)]]
        /\ UNCHANGED <<now, cfg, store, last, hist, mu, inst, metrics>>

(* the call returns: the deferred mu.Unlock() runs *)
Return(p, allowed, info) ==
    /\ mu' = [mu EXCEPT ![inst[p]][cfg.default] = Unlocked]
    /\ procs' = [procs EXCEPT ![p] =
                   [pc |-> "done", n |-> procs[p].n, allowed |-> allowed, info |-> info]]

(* MemoryStore.SetTokens, and the return *)
TokenBucketSet(p) ==
    LET me == procs[p]
    IN  /\ me.pc = "set"
        /\ store' = MemorySetTokens(store, ConcKey, me.tokens, me.now)
        /\ Return(p, me.allowed, TokenBucketInfo(cfg, me.allowed, me.tokens, me.n, me.now))
        /\ UNCHANGED <<now, cfg, last, hist, inst, metrics>>

(* RedisStore.SetTokens: the pipeline's HSET tokens ... *)
TokenBucketHSetTokens(p) ==
    LET me == procs[p]
    IN  /\ me.pc = "hset_tokens"
        /\ store' = RedisHSet(store, ConcKey, "tokens", me.tokens)
        /\ procs' = [procs EXCEPT ![p].pc = "hset_last_refill"]
        /\ UNCHANGED <<now, cfg, last, hist, mu, inst, metrics>>

(* ... and its HSET last_refill, and the return *)
TokenBucketHSetLastRefill(p) ==
    LET me == procs[p]
    IN  /\ me.pc = "hset_last_refill"
        /\ store' = RedisHSet(store, ConcKey, "last_refill", Unix(me.now))
        /\ Return(p, me.allowed, TokenBucketInfo(cfg, me.allowed, me.tokens, me.n, me.now))
        /\ UNCHANGED <<now, cfg, last, hist, inst, metrics>>

WindowInfo(alg, allowed, currentCount, previousCount, t) ==
    IF alg = "sliding_window"
    THEN SlidingWindowInfo(cfg, allowed, currentCount, previousCount, t)
    ELSE FixedWindowInfo(cfg, allowed, currentCount, t)

(* FixedWindowCounter.AllowN / SlidingWindowCounter.AllowN: GetWindows and *)
(* the decision; a denied call returns                                     *)
WindowGet(p) ==
    LET me             == procs[p]
        currentWindow  == Truncate(me.now, WindowTicks)
        previousWindow == currentWindow - WindowTicks
        windows        == IF cfg.default = "sliding_window"
                          THEN GetWindows(store, ConcKey, previousWindow, me.now)
                          ELSE GetWindows(store, ConcKey, currentWindow, me.now)
        allowed        == IF cfg.default = "sliding_window"
                          THEN SlidingWindowAllowed(cfg, windows, me.n, me.now)
                          ELSE FixedWindowAllowed(cfg, windows, me.n, me.now)
    IN  /\ me.pc = "read"
        /\ cfg.default \in {"sliding_window", "fixed_window"}
        /\ IF allowed
           THEN /\ procs' = [procs EXCEPT ![p] =
                               [pc |-> "increment", n |-> me.n, now |-> me.now,
                                previousCount |-> CountAt(windows, previousWindow)]]
                /\ mu' = mu
           ELSE Return(p, FALSE,
                       WindowInfo(cfg.default, FALSE, CountAt(windows, currentWindow),
                                  CountAt(windows, previousWindow), me.now))
        /\ UNCHANGED <<now, cfg, store, last, hist, inst, metrics>>

(* store.Increment of the current window, and the return *)
WindowIncrement(p) ==
    LET me  == procs[p]
        inc == Increment(store, ConcKey, Truncate(me.now, WindowTicks))
    IN  /\ me.pc = "increment"
        /\ store' = inc.store
        /\ Return(p, TRUE,
                  WindowInfo(cfg.default, TRUE, inc.count, me.previousCount, me.now))
        /\ UNCHANGED <<now, cfg, last, hist, inst, metrics>>

ConcNext ==
    \/ \E p \in Procs, n \in ConcCounts : Lock(p, n)
    \/ \E p \in Procs : TokenBucketGet(p)
    \/ \E p \in Procs : TokenBucketSet(p)
    \/ \E p \in Procs : TokenBucketHSetTokens(p)
    \/ \E p \in Procs : TokenBucketHSetLastRefill(p)
    \/ \E p \in Procs : WindowGet(p)
    \/ \E p \in Procs : WindowIncrement(p)

SpecConc == ConcInit /\ [][ConcNext]_vars

(***************************************************************************)
(* Concurrent store calls.  Each caller makes one call on the store for    *)
(* key "k1": Increment of the window that starts at 0, SetTokens or        *)
(* GetTokens.  The steps of a call are the points at which calls of other  *)
(* goroutines (memory store) or commands of other clients (redis store)    *)
(* can come between.  mu holds the mutexes of the windowCounts and of the  *)
(* tokenState of the key; last.count0 is the count of the window before    *)
(* the first call.                                                         *)
(***************************************************************************)
Callers == 1 .. (ConcLimit + 1)

(* the records the SetTokens calls write: whole seconds as last_refill *)
TokenWrites == { [tokens |-> v, lastRefill |-> v * TicksPerSecond] : v \in 1 .. ConcLimit }

(* what GetTokens returns for a key that has no record *)
NoTokens == [tokens |-> 0, lastRefill |-> ZeroTime]

CallsInit ==
    /\ now = 0
    /\ cfg = Config(Limit, 0, "token_bucket")
    /\ \E st \in {NewMemoryStore, NewRedisStore}, c \in {0, 1} :
          /\ store = IF c = 0 THEN st ELSE Increment(st, ConcKey, 0).store
          /\ last = [op |-> "none", count0 |-> c]
    /\ hist = [k \in Keys |-> HistCold("never")]
    /\ procs = [p \in Callers |-> Idle]
    /\ mu = [wc |-> Unlocked, ts |-> Unlocked]
    /\ inst = [p \in Procs |-> "i1"]
    /\ metrics = NoMetrics

(* the call of p returns *)
Done(p, op, ret) == procs' = [procs EXCEPT ![p] = [pc |-> "done", op |-> op, ret |-> ret]]

(* MemoryStore.Increment: ms.counters.LoadOrStore(key, &windowCounts{...}) *)
IncLoadOrStore(p) ==
    /\ procs[p].pc = "idle"
    /\ store.kind = "memory"
    /\ store' = IF ConcKey \in DOMAIN store.counters THEN store
                ELSE [store EXCEPT !.counters = Put(@, ConcKey, EmptyMap)]
    /\ procs' = [procs EXCEPT ![p] = [pc |-> "wc_lock", op |-> "increment"]]
    /\ UNCHANGED <<now, cfg, last, hist, mu, inst, metrics>>

(* wc.data[window]++ without wc.mu.Lock() *)
WcMutexFree_NoLock == TRUE

(* wc.mu.Lock() succeeds when no goroutine holds wc.mu *)
WcMutexFree == mu.wc = Unlocked

IncLock(p) ==
    /\ procs[p].pc = "wc_lock"
    /\ WcMutexFree
    /\ mu' = [mu EXCEPT !.wc = p]
    /\ procs' = [procs EXCEPT ![p].pc = "wc_read"]
    /\ UNCHANGED <<now, cfg, store, last, hist, inst, metrics>>

(* wc.data[window]++: the read ... *)
IncRead(p) ==
    /\ procs[p].pc = "wc_read"
    /\ procs' = [procs EXCEPT ![p] =
                   [pc |-> "wc_write", op |-> "increment",
                    count |-> Lookup(store.counters[ConcKey], 0, 0)]]
    /\ UNCHANGED <<now, cfg, store, last, hist, mu, inst, metrics>>

(* ... and the write; return wc.data[window] and the deferred Unlock *)
IncWrite(p) ==
    /\ procs[p].pc = "wc_write"
    /\ store' = [store EXCEPT !.counters[ConcKey] = Put(@, 0, procs[p].count + 1)]
    /\ mu' = [mu EXCEPT !.wc = Unlocked]
    /\ Done(p, "increment", store'.counters[ConcKey][0])
    /\ UNCHANGED <<now, cfg, last, hist, inst, metrics>>

(* RedisStore.Increment: incrementScript runs as one command *)
IncScript(p) ==
    LET inc == RedisIncrement(store, ConcKey, 0)
    IN  /\ procs[p].pc = "idle"
        /\ store.kind = "redis"
        /\ store' = inc.store
        /\ Done(p, "increment", inc.count)
        /\ UNCHANGED <<now, cfg, last, hist, mu, inst, metrics>>

(* MemoryStore.SetTokens: ms.tokens.LoadOrStore(key, &tokenState{}) *)
SetLoadOrStore(p, w) ==
    /\ procs[p].pc = "idle"
    /\ store.kind = "memory"
    /\ store' = IF ConcKey \in DOMAIN store.tokens THEN store
                ELSE MemorySetTokens(store, ConcKey, 0, ZeroTime)
    /\ procs' = [procs EXCEPT ![p] = [pc |-> "ts_lock", op |-> "set_tokens", arg |-> w]]
    /\ UNCHANGED <<now, cfg, last, hist, mu, inst, metrics>>

(* ts.mu.Lock() *)
SetLock(p) ==
    /\ procs[p].pc = "ts_lock"
    /\ mu.ts = Unlocked
    /\ mu' = [mu EXCEPT !.ts = p]
    /\ procs' = [procs EXCEPT ![p].pc = "ts_tokens"]
    /\ UNCHANGED <<now, cfg, store, last, hist, inst, metrics>>

(* ts.tokens = tokens *)
SetWriteTokens(p) ==
    /\ procs[p].pc = "ts_tokens"
    /\ store' = [store EXCEPT !.tokens[ConcKey].tokens = procs[p].arg.tokens]
    /\ procs' = [procs EXCEPT ![p].pc = "ts_last_refill"]
    /\ UNCHANGED <<now, cfg, last, hist, mu, inst, metrics>>

(* ts.lastRefill = lastRefill, and the deferred Unlock *)
SetWriteLastRefill(p) ==
    /\ procs[p].pc = "ts_last_refill"
    /\ store' = [store EXCEPT !.tokens[ConcKey].lastRefill = procs[p].arg.lastRefill]
    /\ mu' = [mu EXCEPT !.ts = Unlocked]
    /\ procs' = [procs EXCEPT ![p].pc = "done"]
    /\ UNCHANGED <<now, cfg, last, hist, inst, metrics>>

(* RedisStore.SetTokens: the first command of the pipeline, HSET tokens *)
SetHSetTokens(p, w) ==
    /\ procs[p].pc = "idle"
    /\ store.kind = "redis"
    /\ store' = RedisHSet(store, ConcKey, "tokens", w.tokens)
    /\ procs' = [procs EXCEPT ![p] = [pc |-> "hset_last_refill", op |-> "set_tokens", arg |-> w]]
    /\ UNCHANGED <<now, cfg, last, hist, mu, inst, metrics>>

(* the second command, HSET last_refill *)
SetHSetLastRefill(p) ==
    /\ procs[p].pc = "hset_last_refill"
    /\ store' = RedisHSet(store, ConcKey, "last_refill", Unix(procs[p].arg.lastRefill))
    /\ procs' = [procs EXCEPT ![p].pc = "done"]
    /\ UNCHANGED <<now, cfg, last, hist, mu, inst, metrics>>

(* GetTokens: under ts.mu.RLock() in the memory store, one HGETALL in the *)
(* redis store                                                             *)
GetTokensCall(p) ==
    LET got == GetTokens(store, ConcKey)
    IN  /\ procs[p].pc = "idle"
        /\ store.kind = "memory" => mu.ts = Unlocked
        /\ Done(p, "get_tokens", [tokens |-> got.tokens, lastRefill |-> got.lastRefill])
        /\ UNCHANGED <<now, cfg, store, last, hist, mu, inst, metrics>>

CallsNext ==
    \/ \E p \in Callers : IncLoadOrStore(p)
    \/ \E p \in Callers : IncLock(p)
    \/ \E p \in Callers : IncRead(p)
    \/ \E p \in Callers : IncWrite(p)
    \/ \E p \in Callers : IncScript(p)
    \/ \E p \in Callers, w \in TokenWrites : SetLoadOrStore(p, w)
    \/ \E p \in Callers : SetLock(p)
    \/ \E p \in Callers : SetWriteTokens(p)
    \/ \E p \in Callers : SetWriteLastRefill(p)
    \/ \E p \in Callers, w \in TokenWrites : SetHSetTokens(p, w)
    \/ \E p \in Callers : SetHSetLastRefill(p)
    \/ \E p \in Callers : GetTokensCall(p)

SpecCalls == CallsInit /\ [][CallsNext]_vars

(***************************************************************************)
(* Concurrent decides and resets on the memory store, with the cleanup     *)
(* goroutine.  Each caller makes one call, AllowN(key, 1) or Reset(key),   *)
(* on one of the three algorithm instances that share the store; the       *)
(* steps of a call are the points at which it takes or gives back a mutex  *)
(* and its accesses to the sync.Maps.  The clock is held fixed.            *)
(*   mu[a]        the goroutine that holds the mutex of algorithm a        *)
(*   inst         the windowCounts and the tokenState that "k1" maps to    *)
(*                in ms.counters and ms.tokens (0: none), and the number   *)
(*                of such objects made so far; objects are numbered in     *)
(*                the order in which LoadOrStore makes them                *)
(*   procs[p].obj the object p has loaded; its mutex is held by the        *)
(*                goroutine that is between Lock and Unlock on it          *)
(***************************************************************************)
Cleaner == 0

Goroutines == Callers \cup {Cleaner}

LocksInit ==
    /\ now = 0
    /\ cfg = Config(ConcLimit, 0, "token_bucket")
    /\ store = NewMemoryStore
    /\ last = NoCall
    /\ hist = [k \in Keys |-> HistCold("never")]
    /\ procs = [p \in Goroutines |-> IF p = Cleaner THEN [pc |-> "ticker"] ELSE Idle]
    /\ mu = [a \in Algorithms |-> Unlocked]
    /\ inst = [counters |-> 0, tokens |-> 0, made |-> 0]
    /\ metrics = NoMetrics

(* the pcs between Lock() and Unlock() of the mutex of an object *)
Holding == {"ts_write", "wc_write", "sweep"}

(* Lock() or RLock() on the mutex of object obj succeeds *)
ObjFree(obj) == \A q \in Goroutines : ~(procs[q].pc \in Holding /\ procs[q].obj = obj)

(* a deferred mu.Unlock() that does not run *)
Unlock_Forgotten(a) == mu

(* the deferred mu.Unlock() of algorithm a *)
Unlock(a) == [mu EXCEPT ![a] = Unlocked]

(* a request calls AllowN or Reset of algorithm a and comes to mu.Lock(). *)
(* Calls are numbered in the order in which they begin.                    *)
Begin(p, op, a) ==
    /\ procs[p].pc = "idle"
    /\ \A q \in Callers : q < p => procs[q].pc # "idle"
    /\ procs' = [procs EXCEPT ![p] = [pc |-> "mu_lock", op |-> op, alg |-> a]]
    /\ UNCHANGED <<now, cfg, store, last, hist, mu, inst, metrics>>

(* mu.Lock() of AllowN and of Reset *)
AcquireMu(p) ==
    LET me == procs[p]
    IN  /\ me.pc = "mu_lock"
        /\ mu[me.alg] = Unlocked
        /\ mu' = [mu EXCEPT ![me.alg] = p]
        /\ procs' = [procs EXCEPT ![p].pc =
                       IF me.op = "reset" THEN "delete_counters"
                       ELSE IF me.alg = "token_bucket" THEN "get_tokens"
                       ELSE "get_windows"]
        /\ UNCHANGED <<now, cfg, store, last, hist, inst, metrics>>

(* TokenBucket.AllowN: store.GetTokens (Load, ts.mu.RLock, the read,      *)
(* RUnlock), the refill and the decision                                   *)
BucketGetTokens(p) ==
    LET me       == procs[p]
        refilled == TokenBucketRefill(cfg, MemoryGetTokens(store, ConcKey), now)
    IN  /\ me.pc = "get_tokens"
        /\ inst.tokens # 0 => ObjFree(inst.tokens)
        /\ procs' = [procs EXCEPT ![p] =
                       [pc |-> "ts_load", op |-> me.op, alg |-> me.alg,
                        tokens |-> TokenBucketTake(refilled, 1)]]
        /\ UNCHANGED <<now, cfg, store, last, hist, mu, inst, metrics>>

(* MemoryStore.SetTokens: ms.tokens.LoadOrStore(key, &tokenState{}) *)
BucketLoadOrStore(p) ==
    /\ procs[p].pc = "ts_load"
    /\ IF inst.tokens # 0
       THEN /\ procs' = [procs EXCEPT ![p] =
                           [pc |-> "ts_lock", op |-> @.op, alg |-> @.alg,
                            tokens |-> @.tokens, obj |-> inst.tokens]]
            /\ UNCHANGED <<store, inst>>
       ELSE /\ store' = MemorySetTokens(store, ConcKey, 0, ZeroTime)
            /\ inst' = [inst EXCEPT !.tokens = inst.made + 1, !.made = @ + 1]
            /\ procs' = [procs EXCEPT ![p] =
                           [pc |-> "ts_lock", op |-> @.op, alg |-> @.alg,
                            tokens |-> @.tokens, obj |-> inst.made + 1]]
    /\ UNCHANGED <<now, cfg, last, hist, mu, metrics>>

(* ts.mu.Lock() *)
BucketLockTokens(p) ==
    /\ procs[p].pc = "ts_lock"
    /\ ObjFree(procs[p].obj)
    /\ procs' = [procs EXCEPT ![p].pc = "ts_write"]
    /\ UNCHANGED <<now, cfg, store, last, hist, mu, inst, metrics>>

(* the writes of ts.tokens and ts.lastRefill, ts.mu.Unlock(), and the      *)
(* return of AllowN; a tokenState that a Delete took out of ms.tokens is   *)
(* written all the same                                                    *)
BucketWriteTokens(p) ==
    LET me == procs[p]
    IN  /\ me.pc = "ts_write"
        /\ store' = IF me.obj = inst.tokens
                    THEN MemorySetTokens(store, ConcKey, me.tokens, now) ELSE store
        /\ mu' = Unlock(me.alg)
        /\ procs' = [procs EXCEPT ![p] = [pc |-> "done", op |-> me.op, alg |-> me.alg]]
        /\ UNCHANGED <<now, cfg, last, hist, inst, metrics>>

(* SlidingWindowCounter.AllowN / FixedWindowCounter.AllowN: store.GetWindows *)
(* (Load, wc.mu.RLock, the reads, RUnlock) and the decision; a denied call  *)
(* returns                                                                   *)
CounterGetWindows(p) ==
    LET me      == procs[p]
        windows == MemoryGetWindows(store, ConcKey,
                      IF me.alg = "sliding_window" THEN -WindowTicks ELSE 0, now)
        allowed == IF me.alg = "sliding_window"
                   THEN SlidingWindowAllowed(cfg, windows, 1, now)
                   ELSE FixedWindowAllowed(cfg, windows, 1, now)
    IN  /\ me.pc = "get_windows"
        /\ inst.counters # 0 => ObjFree(inst.counters)
        /\ IF allowed
           THEN /\ procs' = [procs EXCEPT ![p].pc = "wc_load"]
                /\ mu' = mu
           ELSE /\ procs' = [procs EXCEPT ![p].pc = "done"]
                /\ mu' = Unlock(me.alg)
        /\ UNCHANGED <<now, cfg, store, last, hist, inst, metrics>>

(* MemoryStore.Increment: ms.counters.LoadOrStore(key, &windowCounts{...}) *)
CounterLoadOrStore(p) ==
    /\ procs[p].pc = "wc_load"
    /\ IF inst.counters # 0
       THEN /\ procs' = [procs EXCEPT ![p] =
                           [pc |-> "wc_lock", op |-> @.op, alg |-> @.alg,
                            obj |-> inst.counters]]
            /\ UNCHANGED <<store, inst>>
       ELSE /\ store' = [store EXCEPT !.counters = Put(@, ConcKey, EmptyMap)]
            /\ inst' = [inst EXCEPT !.counters = inst.made + 1, !.made = @ + 1]
            /\ procs' = [procs EXCEPT ![p] =
                           [pc |-> "wc_lock", op |-> @.op, alg |-> @.alg,
                            obj |-> inst.made + 1]]
    /\ UNCHANGED <<now, cfg, last, hist, mu, metrics>>

(* wc.mu.Lock() *)
CounterLockCounts(p) ==
    /\ procs[p].pc = "wc_lock"
    /\ ObjFree(procs[p].obj)
    /\ procs' = [procs EXCEPT ![p].pc = "wc_write"]
    /\ UNCHANGED <<now, cfg, store, last, hist, mu, inst, metrics>>

(* wc.data[window]++, wc.mu.Unlock(), and the return of AllowN; a          *)
(* windowCounts that a Delete took out of ms.counters is incremented all   *)
(* the same                                                                *)
CounterWriteCount(p) ==
    LET me == procs[p]
    IN  /\ me.pc = "wc_write"
        /\ store' = IF me.obj = inst.counters
                    THEN MemoryIncrement(store, ConcKey, 0).store ELSE store
        /\ mu' = Unlock(me.alg)
        /\ procs' = [procs EXCEPT ![p] = [pc |-> "done", op |-> me.op, alg |-> me.alg]]
        /\ UNCHANGED <<now, cfg, last, hist, inst, metrics>>

(* Reset: store.Delete, ms.counters.Delete(key) ... *)
ResetDeleteCounters(p) ==
    /\ procs[p].pc = "delete_counters"
    /\ store' = [store EXCEPT !.counters = Remove(@, ConcKey)]
    /\ inst' = [inst EXCEPT !.counters = 0]
    /\ procs' = [procs EXCEPT ![p].pc = "delete_tokens"]
    /\ UNCHANGED <<now, cfg, last, hist, mu, metrics>>

(* ... ms.tokens.Delete(key), and the return of Reset *)
ResetDeleteTokens(p) ==
    /\ procs[p].pc = "delete_tokens"
    /\ store' = [store EXCEPT !.tokens = Remove(@, ConcKey)]
    /\ inst' = [inst EXCEPT !.tokens = 0]
    /\ mu' = Unlock(procs[p].alg)
    /\ procs' = [procs EXCEPT ![p].pc = "done"]
    /\ UNCHANGED <<now, cfg, last, hist, metrics>>

(* cleanup: the ticker fires and ms.counters.Range comes to the            *)
(* windowCounts of the key                                                 *)
CleanupRange ==
    /\ procs[Cleaner].pc = "ticker"
    /\ inst.counters # 0
    /\ procs' = [procs EXCEPT ![Cleaner] = [pc |-> "wc_lock", obj |-> inst.counters]]
    /\ UNCHANGED <<now, cfg, store, last, hist, mu, inst, metrics>>

(* wc.mu.Lock() *)
CleanupLock ==
    /\ procs[Cleaner].pc = "wc_lock"
    /\ ObjFree(procs[Cleaner].obj)
    /\ procs' = [procs EXCEPT ![Cleaner].pc = "sweep"]
    /\ UNCHANGED <<now, cfg, store, last, hist, mu, inst, metrics>>

(* the deletes of the old windows and wc.mu.Unlock() *)
CleanupSweep ==
    /\ procs[Cleaner].pc = "sweep"
    /\ store' = IF procs[Cleaner].obj = inst.counters
                THEN MemoryCleanup(store, now) ELSE store
    /\ procs' = [procs EXCEPT ![Cleaner] = [pc |-> "ticker"]]
    /\ UNCHANGED <<now, cfg, last, hist, mu, inst, metrics>>

(* the steps in which the call of p takes a mutex: mu.Lock(), Lock() and  *)
(* RLock() on the mutex of a tokenState or a windowCounts                  *)
Takes(p) ==
    \/ AcquireMu(p)
    \/ BucketGetTokens(p)
    \/ BucketLockTokens(p)
    \/ CounterGetWindows(p)
    \/ CounterLockCounts(p)

(* the steps of the call of p that wait for nothing *)
Proceeds(p) ==
    \/ BucketLoadOrStore(p)
    \/ BucketWriteTokens(p)
    \/ CounterLoadOrStore(p)
    \/ CounterWriteCount(p)
    \/ ResetDeleteCounters(p)
    \/ ResetDeleteTokens(p)

(* the steps of the calls that have begun and of a pass of cleanup that    *)
(* has begun                                                               *)
Running ==
    \/ \E p \in Callers : Takes(p)
    \/ \E p \in Callers : Proceeds(p)
    \/ CleanupLock
    \/ CleanupSweep

LocksNext ==
    \/ \E p \in Callers, op \in {"decide", "reset"}, a \in Algorithms : Begin(p, op, a)
    \/ Running
    \/ CleanupRange

SpecLocks == LocksInit /\ [][LocksNext]_vars

(* Fair scheduling.  A goroutine that can run is run in the end (weak      *)
(* fairness of every step of a call and of a pass).  A goroutine that      *)
(* waits in Lock() or RLock() for a mutex that is free again and again     *)
(* gets it in the end (strong fairness of the steps that take a mutex): a  *)
(* sync.Mutex whose waiter has waited for more than 1 ms hands the mutex   *)
(* to that waiter, and the Unlock of a sync.RWMutex lets in the readers    *)
(* that wait.  Nothing is assumed about requests arriving or the ticker    *)
(* firing.                                                                 *)
LocksFairness ==
    /\ \A p \in Callers : SF_vars(Takes(p)) /\ WF_vars(Proceeds(p))
    /\ SF_vars(CleanupLock)
    /\ WF_vars(CleanupSweep)

SpecLocksFair == SpecLocks /\ LocksFairness

(***************************************************************************)
(* Properties.                                                             *)
(***************************************************************************)
(* last is a decision record returned by AllowN *)
Decided == last.op \in {"check", "status"} /\ last.status \notin {400, 500}

(* last is the latest decide of the run hist[k] *)
RunDecide(k) ==
    hist[k].alg \in Algorithms /\ last.op = "check" /\ last.status \notin {400, 500}

BurstSize(alg) == IF alg = "token_bucket" THEN Capacity(cfg) ELSE cfg.limit

(* C1: on a cold key, with the clock inside one window (bucket: less than  *)
(* one token of refill time since the first decide), the i-th consecutive  *)
(* unit decide is allowed for i <= L and denied for i = L + 1, L being the *)
(* limit (bucket: the capacity); the bucket reports remaining L - i, and 0 *)
(* on the denial.                                                          *)
C1_ColdBurst ==
    \A k \in Keys :
        LET h == hist[k]
            L == BurstSize(h.alg)
        IN  ( /\ RunDecide(k)
              /\ h.unit
              /\ h.len <= L + 1
              /\ h.alg = "token_bucket" => (h.at - h.start) * cfg.limit < WindowTicks )
            => /\ last.allowed = (h.len <= L)
               /\ h.alg = "token_bucket" => last.info.remaining = Max(L - h.len, 0)

(* C2: on a cold key with the clock held, decide(n) and decide(limit - n)  *)
(* with 0 < n < limit are both allowed, and one further unit decide is     *)
(* denied (bucket: with capacity = limit).                                 *)
C2_SplitBudget ==
    \A k \in Keys :
        LET h == hist[k]
        IN  ( /\ RunDecide(k)
              /\ h.at = h.start
              /\ Capacity(cfg) = cfg.limit )
            => /\ (h.len = 1 /\ h.sum < cfg.limit) => last.allowed
               /\ (h.len = 2 /\ h.sum = cfg.limit) => last.allowed
               /\ (h.len = 3 /\ h.sum = cfg.limit + 1 /\ last.n = 1) => ~last.allowed

(* C6: fixed window: the costs of the decides allowed for a key inside one *)
(* aligned window sum to at most limit.                                    *)
C6_FixedWindowBudget ==
    \A k \in Keys : hist[k].alg = "fixed_window" => hist[k].spent <= cfg.limit

(* C7: every decision record has 0 <= remaining <= limit.                  *)
C7_RemainingInRange ==
    Decided => last.info.remaining >= 0 /\ last.info.remaining <= last.info.limit

(* C8: the stored token count of every key is within [0, capacity].        *)
C8_TokensInRange ==
    \A k \in DOMAIN store.tokens :
        /\ StoredTokens(store, k) >= 0
        /\ StoredTokens(store, k) <= Capacity(cfg) * WindowTicks

NewStore(kind) == IF kind = "memory" THEN NewMemoryStore ELSE NewRedisStore

(* C10: the decide that follows reset(key) returns the allowed flag and    *)
(* the remaining that the same decide returns on a key never seen.         *)
C10_ResetIsCold ==
    [][ \A k \in Keys :
          ( /\ Fresh(hist[k]) \in {"reset", "reset_unused"}
            /\ hist'[k] # hist[k]
            /\ last'.op \in {"check", "status"} /\ last'.status \notin {400, 500} )
          => LET cold == AllowN(last'.algorithm, NewStore(store.kind), cfg, k,
                                last'.n, now)
             IN  /\ last'.allowed = cold.allowed
                 /\ last'.info.remaining = cold.info.remaining ]_vars

C10_Witness ==
    /\ Decided
    /\ last.fresh = "reset"
    /\ last.allowed

(***************************************************************************)
(* Properties of concurrent decides.                                       *)
(***************************************************************************)
Returned(p) == procs[p].pc = "done"

RECURSIVE AllowedCostOf(_)
AllowedCostOf(S) ==
    IF S = {} THEN 0
    ELSE LET p == CHOOSE x \in S : TRUE
         IN  (IF Returned(p) /\ procs[p].allowed THEN procs[p].n ELSE 0)
               + AllowedCostOf(S \ {p})

(* the sum of the costs of the decides that returned allow *)
AllowedCost == AllowedCostOf(Procs)

AllowedCount == Cardinality({ p \in Procs : Returned(p) /\ procs[p].allowed })

(* every call was a unit decide *)
AllUnit == \A p \in Procs : procs[p].pc # "idle" => procs[p].n = 1

AllDone == \A p \in Procs : procs[p].pc = "done"

(* C3: token bucket on the memory store, one instance, clock fixed: the    *)
(* costs of the allowed decides on a cold key sum to at most the capacity, *)
(* and 2C unit decides end with exactly C allowed and C denied.            *)
C3_BucketSerialized ==
    (store.kind = "memory" /\ cfg.default = "token_bucket")
    => /\ AllowedCost <= Capacity(cfg)
       /\ (AllDone /\ AllUnit /\ NProcs = 2 * Capacity(cfg))
            => AllowedCount = Capacity(cfg)

C3_Witness ==
    /\ store.kind = "memory" /\ cfg.default = "token_bucket"
    /\ AllDone /\ AllUnit /\ NProcs = 2 * Capacity(cfg)
    /\ AllowedCount = Capacity(cfg)

(* C4: token bucket on the redis store, two instances, clock fixed: 2C     *)
(* unit decides on a cold key end with exactly C allowed.                  *)
C4_BucketShared ==
    ( /\ store.kind = "redis" /\ cfg.default = "token_bucket"
      /\ AllDone /\ AllUnit /\ NProcs = 2 * Capacity(cfg) )
    => AllowedCount = Capacity(cfg)

(* C5: window algorithms on the redis store, two instances, unit decides   *)
(* inside one window: at most limit are allowed and the stored count of    *)
(* the window is at most limit.                                            *)
C5_WindowShared ==
    ( /\ store.kind = "redis" /\ cfg.default \in {"fixed_window", "sliding_window"}
      /\ AllUnit )
    => /\ AllowedCount <= cfg.limit
       /\ CountAt(GetWindows(store, ConcKey, Truncate(now, WindowTicks), now),
                  Truncate(now, WindowTicks)) <= cfg.limit

(***************************************************************************)
(* Frame properties.                                                       *)
(***************************************************************************)
(* what the store holds for one key *)
KeyState(st, k) ==
    [counters |-> [x \in (DOMAIN st.counters) \cap {k} |-> st.counters[x]],
     tokens   |-> [x \in (DOMAIN st.tokens) \cap {k} |-> st.tokens[x]]]

(* the part of a decide's result that the caller sees as its outcome *)
Outcome(res) == [err |-> res.err, allowed |-> res.allowed, remaining |-> res.info.remaining]

(* a decide of cost n on key k through algorithm a has the same outcome in *)
(* store st1 as in store st2                                               *)
SameDecides(st1, st2, a, k) ==
    \A n \in 0 .. Limit :
        Outcome(AllowN(a, st1, cfg, k, n, now)) = Outcome(AllowN(a, st2, cfg, k, n, now))

(* the step is a handler call, recorded in last': neither the clock nor    *)
(* the health of the store changes in it                                   *)
HandlerStep == now' = now /\ store'.failing = store.failing

(* C11: a decide, status probe or reset on one key leaves the stored state *)
(* of every other key unchanged, and with it the outcome of every decide   *)
(* on that other key, for every algorithm.                                 *)
C11_KeysIndependent ==
    [][ \A k2 \in Keys \ {last'.key} :
          /\ KeyState(store', k2) = KeyState(store, k2)
          /\ \A a \in Algorithms : SameDecides(store', store, a, k2) ]_vars

C11_Witness ==
    /\ last.op = "reset" /\ last.status = 200 /\ last.key = "k1"
    /\ last.fresh = "no"
    /\ "k2" \in DOMAIN store.tokens
    /\ "k2" \in DOMAIN store.counters

(* C12: a decide or reset made through one algorithm on a key leaves the   *)
(* outcome of a decide on that key through every other algorithm as it was *)
C12_AlgorithmsIndependent ==
    [][ (HandlerStep /\ last'.op \in {"check", "reset"} /\ last'.status \notin {400, 500})
          => \A b \in Algorithms \ {last'.algorithm} :
                SameDecides(store', store, b, last'.key) ]_vars

(* C13: with the clock held, a status probe leaves the outcome of every    *)
(* later decide on the key as it was, and for the window algorithms it     *)
(* leaves the store unchanged.                                             *)
C13_ProbeConsumesNothing ==
    [][ (HandlerStep /\ last'.op = "status" /\ last'.status = 200)
          => /\ SameDecides(store', store, last'.algorithm, last'.key)
             /\ last'.algorithm \in {"sliding_window", "fixed_window"}
                  => store' = store ]_vars

(* the start of the aligned window that contains instant t *)
AlignedWindow(t) == WindowTicks * (t \div WindowTicks)

(* the count the store holds for key k in the aligned window starting at w *)
StoredCount(st, k, w) == CountAt(GetWindows(st, k, w, w), w)

Min(a, b) == IF a <= b THEN a ELSE b

(* the step is a POST /v1/check on key k answered by algorithm alg with a   *)
(* decision                                                                *)
CheckStep(k, alg) ==
    /\ HandlerStep
    /\ last'.op = "check" /\ last'.key = k /\ last'.algorithm = alg
    /\ last'.status \notin {400, 500}

(* C15: token bucket, clock held since the previous decide on the key: a    *)
(* denied decide leaves the stored token count as it was, reports its      *)
(* floor as remaining, and a following decide of any cost m up to that     *)
(* count is allowed.                                                       *)
C15_DenialConsumesNothing ==
    [][ \A k \in Keys :
          ( /\ CheckStep(k, "token_bucket")
            /\ ~last'.allowed
            /\ hist[k].alg = "token_bucket" /\ hist[k].at = now )
          => /\ StoredTokens(store', k) = StoredTokens(store, k)
             /\ last'.info.remaining = StoredTokens(store', k) \div WindowTicks
             /\ \A m \in 1 .. Limit :
                   m * WindowTicks <= StoredTokens(store', k)
                     => AllowN("token_bucket", store', cfg, k, m, now).allowed ]_vars

C17_RefillAfterDrain ==
    [][ \A k \in Keys :
          ( /\ CheckStep(k, "token_bucket")
            /\ last'.n = 1
            /\ hist[k].alg = "token_bucket"
            /\ StoredTokens(store, k) = 0 )
          => LET dt     == now - hist[k].at
                 gained == Min(Capacity(cfg) * WindowTicks, dt * cfg.limit)
             IN  /\ last'.allowed <=> (dt * cfg.limit >= WindowTicks)
                 /\ last'.allowed
                      => last'.info.remaining = (gained - WindowTicks) \div WindowTicks ]_vars

(* C18: a status probe on a key never seen, or just reset, succeeds and    *)
(* reports allowed with remaining = limit (bucket: capacity).              *)
C18_ColdProbeFullHeadroom ==
    (last.op = "status" /\ last.fresh # "no")
    => /\ last.status = 200
       /\ last.allowed
       /\ last.info.remaining = BurstSize(last.algorithm)

(* C19: POST /v1/check with a negative count is answered with HTTP 400,    *)
(* AllowN is not called and the limiter state stays as it was.             *)
C19_NegativeCountRejected ==
    [][ (HandlerStep /\ last'.op = "check" /\ last'.n < 0)
          => /\ last'.status = 400
             /\ store' = store ]_vars

(***************************************************************************)
(* Error paths.                                                            *)
(***************************************************************************)
(* a store operation that the decide AllowN(alg, st, key, n) calls fails:  *)
(* the bucket always calls get_tokens and set_tokens, the window           *)
(* algorithms always call get_windows, and increment when they allow       *)
StoreCallFails(alg, st, key, n) ==
    CASE alg = "token_bucket" ->
           RedisErr(st, "get_tokens") \/ RedisErr(st, "set_tokens")
      [] alg = "sliding_window" ->
           \/ RedisErr(st, "get_windows")
           \/ /\ RedisErr(st, "increment")
              /\ SlidingWindowAllowed(cfg, GetWindows(st, key, Truncate(now, WindowTicks)
                                          - WindowTicks, now), n, now)
      [] alg = "fixed_window" ->
           \/ RedisErr(st, "get_windows")
           \/ /\ RedisErr(st, "increment")
              /\ FixedWindowAllowed(cfg, GetWindows(st, key, Truncate(now, WindowTicks),
                                        now), n, now)

(* C14: a decide during which a store operation fails returns the error    *)
(* (HTTP 500), never allow, and leaves the stored state of the key as it   *)
(* was.                                                                    *)
C14_NoFailOpen ==
    [][ ( /\ HandlerStep
          /\ last'.op \in {"check", "status"}
          /\ last'.status # 400
          /\ StoreCallFails(last'.algorithm, store, last'.key, last'.n) )
        => /\ last'.status = 500
           /\ ~last'.allowed
           /\ KeyState(store', last'.key) = KeyState(store, last'.key) ]_vars

(* C20: when AllowN returns an error the Check handler answers 500 and the *)
(* request changes none of requests_total, requests_allowed and            *)
(* requests_denied.                                                        *)
C20_ErrorNotRecorded ==
    [][ ( /\ HandlerStep
          /\ last'.op = "check"
          /\ last'.status # 400
          /\ AllowN(last'.algorithm, store, cfg, last'.key, last'.n, now).err )
        => /\ last'.status = 500
           /\ metrics' = NoMetrics ]_vars

C20_Witness ==
    /\ last.op = "check"
    /\ last.status = 500
    /\ metrics = NoMetrics

(***************************************************************************)
(* Claims about the shape of stored values, the hints of a decision and    *)
(* the two store implementations.                                          *)
(***************************************************************************)
(* C21: a check or a status probe on a key whose stored hash holds a       *)
(* non-numeric tokens, last_refill, window field or count is answered with *)
(* an error (500), never with a decision computed from a substituted value *)
C21_MalformedIsError ==
    [][(/\ HandlerStep
        /\ last'.op \in {"check", "status"}
        /\ last'.algorithm \in Algorithms
        /\ Malformed(store, last'.algorithm, last'.key))
       => last'.status = 500]_vars

(* the decision record a status probe on the key returns at instant t when *)
(* nothing touches the key before t                                        *)
ProbeAt(st, alg, key, t) == AllowN(alg, st, cfg, key, 0, t).info

(* C22: reset_at of every decision record is an instant at which the key   *)
(* has its full budget again: with no further traffic, a status probe made *)
(* at reset_at reports remaining = limit (the capacity for a token bucket) *)
C22_ResetAtRestoresBudget ==
    [][(HandlerStep /\ Decided')
       => ProbeAt(store', last'.algorithm, last'.key, last'.info.resetAt).remaining
            = BurstSize(last'.algorithm)]_vars

(* C23: sliding window: retry_after of a denial is long enough: when no    *)
(* other decide comes between, the same request (cost n <= limit) made     *)
(* retry_after later is allowed                                            *)
C23_SlidingRetrySucceeds ==
    [][(/\ CheckStep("k1", "sliding_window")
        /\ ~last'.allowed
        /\ last'.n >= 1 /\ last'.n <= cfg.limit)
       => AllowN("sliding_window", store', cfg, "k1", last'.n,
                 now + last'.info.retryAfter[1]).allowed]_vars

(* C24: token bucket: retry_after of a denial is the time the missing      *)
(* n - tokens take to refill, at the resolution of the clock and not of    *)
(* whole seconds: it is not shorter than that time, exceeds it by less     *)
(* than one tick, and the same request made retry_after later is allowed   *)
C24_BucketRetryAfterExact ==
    [][(/\ CheckStep("k1", "token_bucket")
        /\ ~last'.allowed
        /\ last'.n >= 1 /\ last'.n <= Capacity(cfg))
       => LET missing == last'.n * WindowTicks - StoredTokens(store', "k1")
              wait    == last'.info.retryAfter[1]
          IN  /\ wait * cfg.limit >= missing
              /\ (wait - 1) * cfg.limit < missing
              /\ AllowN("token_bucket", store', cfg, "k1", last'.n,
                        now + wait).allowed]_vars

(* the instants of the window that starts at w *)
InWindow(w) == w .. (w + WindowTicks - 1)

(* C25: sliding window: when a window holds limit decides and the next     *)
(* window is empty, the remaining that a first probe of the next window    *)
(* reports does not decrease with the instant of the probe in that window  *)
C25_WeightedMonotone ==
    \A p \in {AlignedWindow(now) - WindowTicks, AlignedWindow(now)} :
       ( /\ cfg.default = "sliding_window"
         /\ StoredCount(store, "k1", p) = cfg.limit
         /\ StoredCount(store, "k1", p + WindowTicks) = 0 )
       => \A t1, t2 \in InWindow(p + WindowTicks) :
             t1 <= t2 => ProbeAt(store, "sliding_window", "k1", t1).remaining
                           <= ProbeAt(store, "sliding_window", "k1", t2).remaining

(* a first probe of a window, made past its start, after a saturated one *)
C25_Witness ==
    /\ last.op = "status" /\ last.algorithm = "sliding_window" /\ last.status = 200
    /\ now > AlignedWindow(now)
    /\ StoredCount(store, "k1", AlignedWindow(now) - WindowTicks) = cfg.limit
    /\ StoredCount(store, "k1", AlignedWindow(now)) = 1
    /\ last.info.remaining
         = ProbeAt([store EXCEPT !.counters =
                       Put(@, "k1", Remove(@["k1"], IF store.kind = "redis"
                                                    THEN Unix(AlignedWindow(now))
                                                    ELSE AlignedWindow(now)))],
                   "sliding_window", "k1", now).remaining

(* C26: the memory store and the redis store answer every call of one      *)
(* client alike, whatever instants the client passes as window starts and  *)
(* as last_refill: GetTokens after SetTokens(key, x, t) returns (x, t) on  *)
(* both, GetWindows returns every incremented window with its start        *)
C26_StoresConform == last.memory = last.redis

(* C27: a configuration with limit <= 0, window <= 0 or an unknown store   *)
(* backend is refused at startup: the process never serves with one        *)
C27_InvalidConfigRefused ==
    last.op = "serving"
       => cfg.requests > 0 /\ cfg.window > 0 /\ cfg.store \in {"memory", "redis"}

(* C28: sliding window: a decide of cost n is allowed exactly when         *)
(* C_cur + C_prev * (1 - f) + n <= limit, C_cur and C_prev being the       *)
(* stored counts of the current and the previous window and f the part of  *)
(* the current window that has passed (both sides times WindowTicks)       *)
C28_SlidingDecisionRule ==
    [][(/\ HandlerStep
        /\ Decided'
        /\ last'.algorithm = "sliding_window" /\ last'.key = "k1")
       => LET cur == AlignedWindow(now)
              lhs == StoredCount(store, "k1", cur) * WindowTicks
                       + StoredCount(store, "k1", cur - WindowTicks)
                           * (WindowTicks - (now - cur))
                       + last'.n * WindowTicks
          IN  last'.allowed <=> (lhs <= cfg.limit * WindowTicks)]_vars

(* a request allowed part way into a window only because the previous      *)
(* window no longer counts in full                                         *)
C28_Witness ==
    /\ last.op = "check" /\ last.algorithm = "sliding_window" /\ last.allowed
    /\ now > AlignedWindow(now)
    /\ StoredCount(store, "k1", AlignedWindow(now)) - 1
         + StoredCount(store, "k1", AlignedWindow(now) - WindowTicks)
         + last.n > cfg.limit

(* C29: token bucket: after every decide that returns without error,       *)
(* allowed or denied, probes included, the stored record of the key is     *)
(* (tokens, now): tokens is min(capacity, stored tokens + elapsed * rate), *)
(* less n when the decide was allowed, and last_refill is the clock        *)
(* reading of the decide                                                   *)
C29_BucketWriteBack ==
    [][(/\ HandlerStep
        /\ Decided'
        /\ last'.algorithm = "token_bucket" /\ last'.key = "k1")
       => LET before   == GetTokens(store, "k1")
              after    == GetTokens(store', "k1")
              refilled == Min(Capacity(cfg) * WindowTicks,
                              before.tokens + Sub(now, before.lastRefill) * cfg.limit)
          IN  /\ after.tokens = IF last'.allowed
                                THEN refilled - last'.n * WindowTicks ELSE refilled
              /\ after.lastRefill = now]_vars

(* C30: token bucket: a decide whose clock reading lies before the stored  *)
(* last_refill refills nothing rather than a negative amount: the stored   *)
(* tokens fall by no more than what the decide took, and never below 0     *)
C30_SkewRefillsNothing ==
    [][(/\ HandlerStep
        /\ Decided'
        /\ last'.algorithm = "token_bucket" /\ last'.key = "k1"
        /\ GetTokens(store, "k1").lastRefill # ZeroTime
        /\ now < GetTokens(store, "k1").lastRefill)
       => LET before == StoredTokens(store, "k1")
              after  == StoredTokens(store', "k1")
          IN  /\ after >= IF last'.allowed
                          THEN before - last'.n * WindowTicks ELSE before
              /\ after >= 0]_vars

(***************************************************************************)
(* Claims about the frame of a denial, the rate of a bucket, the key of a  *)
(* request and the Retry-After header.                                     *)
(***************************************************************************)
(* C38: a decide of the fixed or the sliding window counter that returns   *)
(* deny writes nothing: the store, and with it every window count of every *)
(* key, is after the call what it was before                               *)
C38_DenialWritesNothing ==
    [][(/\ HandlerStep
        /\ Decided'
        /\ last'.algorithm \in WindowAlgorithms
        /\ ~last'.allowed)
       => store' = store]_vars

(* a denial by a window counter on a key that holds counts *)
C38_Witness ==
    /\ Decided
    /\ last.algorithm \in WindowAlgorithms
    /\ ~last.allowed
    /\ StoredCount(store, last.key, AlignedWindow(now)) >= cfg.limit

(* int(info.RetryAfter.Seconds()): the retry_after field of the response   *)
(* body and the Retry-After header, in whole seconds                       *)
RetrySeconds(info) == Trunc(info.retryAfter[1], TicksPerSecond)

(* C40: fixed window over HTTP: after a 429, the same request (count <=    *)
(* limit) repeated after the whole seconds of the Retry-After header, with *)
(* no other traffic on the key, is answered 200 allowed                    *)
C40_RetryAfterHeaderSuffices ==
    [][(/\ CheckStep("k1", "fixed_window")
        /\ last'.status = 429
        /\ last'.n >= 1 /\ last'.n <= cfg.limit)
       => AllowN("fixed_window", store', cfg, "k1", last'.n,
                 now + RetrySeconds(last'.info) * TicksPerSecond).allowed]_vars

(* C36: token bucket on the memory store, one instance, the clock never    *)
(* going back, costs n >= 0, no reset: the costs of the decides on a key   *)
(* that returned allow sum to at most capacity + rate * (tk - t0), t0 and  *)
(* tk being the instants of the first and the latest decide (both sides    *)
(* times WindowTicks)                                                      *)
C36_BucketRateBound ==
    hist["k1"].granted * WindowTicks
       <= Capacity(cfg) * WindowTicks + cfg.limit * (hist["k1"].tk - hist["k1"].t0)

(* the bound is met: a drained bucket, refilled over time and drained again *)
C36_Witness ==
    /\ last.op = "check" /\ last.allowed /\ last.n >= 1
    /\ hist["k1"].tk > hist["k1"].t0
    /\ hist["k1"].granted > Capacity(cfg)
    /\ hist["k1"].granted * WindowTicks
         = Capacity(cfg) * WindowTicks + cfg.limit * (hist["k1"].tk - hist["k1"].t0)

(* C39: requests with different (identifier, resource) pairs share no      *)
(* limiter state: a check for one pair leaves the outcome of a check for   *)
(* every other pair as it was                                              *)
C39_PairsIndependent ==
    [][(HandlerStep /\ last'.op = "check" /\ last'.status # 500)
       => \A i \in Identifiers, r \in Resources :
             (<<i, r>> # <<last'.identifier, last'.resource>>)
             => LET before == AllowN(cfg.default, store, cfg, RateLimitKey(i, r), 1, now)
                    after  == AllowN(cfg.default, store', cfg, RateLimitKey(i, r), 1, now)
                IN  /\ after.allowed = before.allowed
                    /\ after.info.remaining = before.info.remaining]_vars

(***************************************************************************)
(* Claims about the eviction of the memory store.                          *)
(***************************************************************************)
(* the window records of key k *)
WindowRecords(st, k) == Lookup(st.counters, k, EmptyMap)

(* C33: after a pass of the eviction task no key holds a window record     *)
(* whose start is more than the TTL (24 hours) back, and every record that *)
(* is not older than the TTL is still there with its count                 *)
C33_EvictionPass ==
    [][(now' = now /\ procs' = procs /\ last'.op = "cleanup")
       => \A k \in Keys :
             /\ \A w \in DOMAIN WindowRecords(store', k) : now - w <= CleanupTTL
             /\ \A w \in DOMAIN WindowRecords(store, k) :
                   now - w <= CleanupTTL
                   => /\ w \in DOMAIN WindowRecords(store', k)
                      /\ WindowRecords(store', k)[w] = WindowRecords(store, k)[w]]_vars

(* a pass has removed a record of a key and kept one that is exactly as    *)
(* old as the TTL                                                          *)
C33_Witness ==
    /\ last.op = "cleanup"
    /\ \E k \in Keys : (now - CleanupTTL) \in DOMAIN WindowRecords(store, k)
    /\ \E k \in Keys : k \in DOMAIN store.counters /\ DOMAIN WindowRecords(store, k) = {}

(* C34: once Close has returned the eviction goroutine has terminated, so  *)
(* that no pass runs afterwards                                            *)
C34_CloseStopsEviction == procs.closed => procs.cleanup = "stopped"

(* C37: an eviction pass removes no record that a decide of a window       *)
(* counter reads: a decide returns the same allowed and remaining whether  *)
(* or not a pass ran just before it                                        *)
C37_EvictionKeepsOutcome ==
    \A k \in Keys, n \in {0, 1} :
       LET plain   == AllowN(cfg.default, store, cfg, k, n, now)
           evicted == AllowN(cfg.default, MemoryCleanup(store, now), cfg, k, n, now)
       IN  /\ evicted.allowed = plain.allowed
           /\ evicted.info.remaining = plain.info.remaining

(***************************************************************************)
(* Claims about concurrent store calls.                                    *)
(***************************************************************************)
(* the Increment calls that have begun, and those that have returned *)
Incrementing == { p \in Callers : procs[p].pc # "idle" /\ procs[p].op = "increment" }

Incremented == { p \in Incrementing : procs[p].pc = "done" }

(* C31: Increment is an atomic read-modify-write of its (key, window):     *)
(* under every interleaving the k calls that have begun on a window of     *)
(* count c return distinct values out of c+1 .. c+k, and when all have     *)
(* returned the stored count is c+k; on both stores, and when the calls    *)
(* create the key at the same time                                         *)
C31_IncrementAtomic ==
    /\ \A p \in Incremented :
          /\ procs[p].ret >= last.count0 + 1
          /\ procs[p].ret <= last.count0 + Cardinality(Incrementing)
          /\ \A q \in Incremented : q # p => procs[q].ret # procs[p].ret
    /\ Incremented = Incrementing
          => StoredCount(store, ConcKey, 0) = last.count0 + Cardinality(Incrementing)

(* every caller has incremented a window of the memory store that did not  *)
(* exist before, and all have returned                                     *)
C31_Witness ==
    /\ store.kind = "memory"
    /\ last.count0 = 0
    /\ Incremented = Callers
    /\ StoredCount(store, ConcKey, 0) = Cardinality(Callers)

(* C32: SetTokens replaces the record of the key atomically: whatever a    *)
(* concurrent GetTokens returns is the pair of a record as one SetTokens   *)
(* call wrote it, or the pair of a key without record, never a mixture     *)
C32_SetTokensAtomic ==
    \A p \in Callers :
       (procs[p].pc = "done" /\ procs[p].op = "get_tokens")
       => \/ procs[p].ret = NoTokens
          \/ \E q \in Callers :
                /\ procs[q].pc # "idle" /\ procs[q].op = "set_tokens"
                /\ procs[p].ret = procs[q].arg

(***************************************************************************)
(* Claims about blocking.                                                  *)
(***************************************************************************)
(* the call of p has begun and has not returned *)
InCall(p) == procs[p].pc \notin {"idle", "done"}

(* some goroutine that is in a call or in a pass of cleanup can take a step *)
NoDeadlock == (\E p \in Callers : InCall(p)) => ENABLED Running

(* C35: with the memory store no call blocks for ever: whatever decides    *)
(* and resets run at the same time through the three algorithm instances   *)
(* that share the store, with the cleanup goroutine running, there is no   *)
(* deadlock, and under fair scheduling every call that has begun returns   *)
C35_NoCallBlocksForever ==
    /\ []NoDeadlock
    /\ \A p \in Callers : InCall(p) ~> (procs[p].pc = "done")

(* a window counter waits for wc.mu, which the cleanup goroutine holds,    *)
(* while a second call waits for the mutex of that counter and a third is  *)
(* in a Reset                                                              *)
C35_Witness ==
    \E p, q, r \in Callers :
       /\ procs[p].pc = "wc_lock"
       /\ procs[Cleaner].pc = "sweep" /\ procs[Cleaner].obj = procs[p].obj
       /\ procs[q].pc = "mu_lock" /\ procs[q].alg = procs[p].alg
       /\ procs[r].pc = "delete_tokens"

=============================================================================
